---- MODULE Spec2Model ----
(***************************************************************************)
(* On-chain programs of Trashmarket.fun:                                   *)
(*   bridge         (src/bridge/programs/bridge/src/lib.rs)                *)
(*                  escrow orders, bidirectional: sGOR (SPL token) <->     *)
(*                  gGOR (native)                                          *)
(*   solana_bridge  (src/bridge-solana/programs/solana-bridge/src/lib.rs)  *)
(*                  escrow orders, single asset: sGOR escrow only          *)
(*   vanity_miner   (src/vanity-miner/programs/vanity-miner/src/lib.rs)    *)
(*                  metered ledger: deposits of native GOR in one shared   *)
(*                  vault, charged per batch to the treasury               *)
(* Every instruction is one action.  An instruction that returns Err       *)
(* leaves every account as it was (the host runtime discards the account   *)
(* changes of a failed instruction), so it is a stuttering step; the       *)
(* history variable `last` records the last instruction that returned Ok.  *)
(***************************************************************************)
EXTENDS Integers, Sequences, FiniteSets, TLC

VARIABLES engine, slot, lamports, tokens, orders, escrows, events, last, debit,
          mining, gor

vars == <<engine, slot, lamports, tokens, orders, escrows, events, last, debit,
          mining, gor>>

----------------------------------------------------------------------------
(* Program constants *)

MIN_ORDER_AMOUNT == 100000
MAX_EXPIRY_SLOTS == 216000
SGOR_MINT == "sGOR"
OTHER_MINT == "other"

(* Bounds of the model *)

\* amounts offered to create_order: MIN-1 and MIN, 2*MIN, .. MaxAmountUnits*MIN
MaxAmountUnits == 2
\* the clock runs from 0 to MaxSlot
MaxSlot == 2
\* at most MaxOrders orders are ever created
MaxOrders == 2
\* rent deposit of an Order account and of an escrow token account
OrderRent == 3
TokenRent == 2

Users == {"alice", "bob", "carol"}
Amounts == {MIN_ORDER_AMOUNT - 1} \cup {MIN_ORDER_AMOUNT * k : k \in 1..MaxAmountUnits}
OrderIds == Users \X Amounts

----------------------------------------------------------------------------
(* Account identities.  Every identity is a triple, so that they compare.  *)

None == <<"none", "", 0>>
User(u) == <<"user", u, 0>>
\* AddressDerivation: seeds = [b"order", maker, amount.to_le_bytes()]
OrderPda(id) == <<"order", id[1], id[2]>>
\* seeds = [b"escrow", maker, amount.to_le_bytes()]
EscrowPda(id) == <<"escrow", id[1], id[2]>>
\* a user's sGOR token account, and a token account of another mint
Ata(u) == <<"ata", u, 0>>
Alt(u) == <<"alt", u, 0>>
IdOf(acct) == <<acct[2], acct[3]>>

NativeAccts == {User(u) : u \in Users} \cup {OrderPda(id) : id \in OrderIds}
                 \cup {EscrowPda(id) : id \in OrderIds}
TokenAccts == {Ata(u) : u \in Users} \cup {Alt(u) : u \in Users}
                 \cup {EscrowPda(id) : id \in OrderIds}

NoOrder == [live |-> FALSE, maker |-> "", amount |-> 0, direction |-> 0,
            expiration_slot |-> 0, gorbagana_recipient |-> "",
            is_filled |-> FALSE, bump |-> 0]

Bump(id) == 255

\* The accounts as one value, the form the handlers work on.  xfers counts
\* the transfers the running instruction has executed.
World == [lamports |-> lamports, tokens |-> tokens, orders |-> orders,
          escrows |-> escrows, events |-> events, xfers |-> 0]

Ok(w) == [err |-> "Ok", w |-> w]
Err(e, w) == [err |-> e, w |-> w]

----------------------------------------------------------------------------
(* Token and system program *)

TokenExists(w, acct) ==
    IF acct[1] = "escrow" THEN w.escrows[IdOf(acct)] # "none"
    ELSE acct[1] \in {"ata", "alt"}

MintOf(w, acct) ==
    IF acct[1] = "ata" THEN SGOR_MINT
    ELSE IF acct[1] = "alt" THEN OTHER_MINT
    ELSE w.escrows[IdOf(acct)]

\* the authority of a token account: its user, or the order PDA of an escrow
TokenAuthority(acct) ==
    IF acct[1] = "escrow" THEN OrderPda(IdOf(acct)) ELSE User(acct[2])

\* variant of token::transfer that does not check the authority
SplTransfer_AnyAuthority(w, from, to, authority, amount) ==
    IF w.tokens[from] < amount THEN Err("InsufficientFunds", w)
    ELSE IF MintOf(w, from) # MintOf(w, to) THEN Err("MintMismatch", w)
    ELSE IF from = to THEN Ok([w EXCEPT !.xfers = @ + 1])
    ELSE Ok([w EXCEPT !.tokens[from] = @ - amount,
                      !.tokens[to] = @ + amount,
                      !.xfers = @ + 1])

\* token::transfer(from, to, authority, amount)
SplTransfer(w, from, to, authority, amount) ==
    IF w.tokens[from] < amount THEN Err("InsufficientFunds", w)
    ELSE IF MintOf(w, from) # MintOf(w, to) THEN Err("MintMismatch", w)
    ELSE IF TokenAuthority(from) # authority THEN Err("OwnerMismatch", w)
    ELSE IF from = to THEN Ok([w EXCEPT !.xfers = @ + 1])
    ELSE Ok([w EXCEPT !.tokens[from] = @ - amount,
                      !.tokens[to] = @ + amount,
                      !.xfers = @ + 1])

\* system_program::transfer(from, to, amount)
SystemTransfer(w, from, to, amount) ==
    IF w.lamports[from] < amount THEN Err("InsufficientLamports", w)
    ELSE IF from = to THEN Ok([w EXCEPT !.xfers = @ + 1])
    ELSE Ok([w EXCEPT !.lamports[from] = @ - amount,
                      !.lamports[to] = @ + amount,
                      !.xfers = @ + 1])

\* variant of the direct lamport move that credits without debiting
MoveLamports_NoDebit(w, from, to, amount) ==
    IF w.lamports[from] < amount THEN Err("ArithmeticOverflow", w)
    ELSE Ok([w EXCEPT !.lamports[to] = @ + amount, !.xfers = @ + 1])

\* **from.try_borrow_mut_lamports()? -= amount; **to... += amount
MoveLamports(w, from, to, amount) ==
    IF w.lamports[from] < amount THEN Err("ArithmeticOverflow", w)
    ELSE IF from = to THEN Ok([w EXCEPT !.xfers = @ + 1])
    ELSE Ok([w EXCEPT !.lamports[from] = @ - amount,
                      !.lamports[to] = @ + amount,
                      !.xfers = @ + 1])

\* variant of emit! that logs the event twice
Emit_Twice(w, kind, id, who) ==
    [w EXCEPT !.events =
        Append(Append(@, [kind |-> kind, order |-> id, who |-> who]),
               [kind |-> kind, order |-> id, who |-> who])]

Emit(w, kind, id, who) ==
    [w EXCEPT !.events = Append(@, [kind |-> kind, order |-> id, who |-> who])]

----------------------------------------------------------------------------
(* Account validation shared by both programs *)

\* variant of init that takes over an order account already in use
InitOrderAccount_Overwrite(w, maker, id) ==
    IF w.lamports[User(maker)] < OrderRent THEN Err("InsufficientLamports", w)
    ELSE Ok([w EXCEPT !.lamports[User(maker)] = @ - OrderRent,
                      !.lamports[OrderPda(id)] = @ + OrderRent,
                      !.orders[id] = [NoOrder EXCEPT !.live = TRUE]])

\* #[account(init, seeds = [b"order", maker, amount], payer = maker)]
InitOrderAccount(w, maker, id) ==
    IF w.orders[id].live THEN Err("AccountInUse", w)
    ELSE IF w.lamports[User(maker)] < OrderRent THEN Err("InsufficientLamports", w)
    ELSE Ok([w EXCEPT !.lamports[User(maker)] = @ - OrderRent,
                      !.lamports[OrderPda(id)] = @ + OrderRent,
                      !.orders[id] = [NoOrder EXCEPT !.live = TRUE]])

\* the token-account part of init: token::mint = mint, token::authority = order
InitEscrowAccount(w, maker, id, mint) ==
    IF mint = "none" THEN Err("AccountNotEnoughKeys", w)
    ELSE IF w.lamports[User(maker)] < TokenRent THEN Err("InsufficientLamports", w)
    ELSE Ok([w EXCEPT !.lamports[User(maker)] = @ - TokenRent,
                      !.lamports[EscrowPda(id)] = @ + TokenRent,
                      !.escrows[id] = mint])

\* an optional token account that is supplied must be an initialized one
Loadable(w, acct) == acct = None \/ TokenExists(w, acct)

\* variant of close that hands back the lamports and keeps the record
CloseOrder_KeepRecord(w, id, maker) ==
    [w EXCEPT !.lamports[User(maker)] = @ + w.lamports[OrderPda(id)],
              !.lamports[OrderPda(id)] = 0]

\* close = maker: the account's lamports go to the maker, the record is gone
CloseOrder(w, id, maker) ==
    [w EXCEPT !.lamports[User(maker)] = @ + w.lamports[OrderPda(id)],
              !.lamports[OrderPda(id)] = 0,
              !.orders[id] = NoOrder]

\* variant of the amount check that admits every positive amount
AmountAllowed_Positive(amount) == amount > 0

\* require!(amount >= MIN_ORDER_AMOUNT, InvalidAmount), in both programs
AmountAllowed(amount) == amount >= MIN_ORDER_AMOUNT

\* variant of the first expiration check that admits the current slot
NotInPast_Inclusive(expiration_slot, now) == expiration_slot >= now

\* require!(expiration_slot > clock.slot, ExpirationInPast)
NotInPast(expiration_slot, now) == expiration_slot > now

\* require!(expiration_slot <= clock.slot + MAX_EXPIRY_SLOTS, ExpirationTooFar)
NotTooFar(expiration_slot, now) == expiration_slot <= now + MAX_EXPIRY_SLOTS

----------------------------------------------------------------------------
(* bridge: the bidirectional engine *)

\* struct CreateOrder: order is init, escrow_token_account is an optional
\* init_if_needed account at the escrow seeds
BridgeCreateAccounts(w, maker, amount, acc) ==
    LET id == <<maker, amount>>
        r1 == InitOrderAccount(w, maker, id)
    IN  IF r1.err # "Ok" THEN r1
        ELSE IF ~Loadable(r1.w, acc.maker_token_account)
            THEN Err("AccountNotInitialized", r1.w)
        ELSE IF acc.escrow_token_account = None THEN r1
        ELSE IF acc.escrow_token_account # EscrowPda(id)
            THEN Err("ConstraintSeeds", r1.w)
        ELSE IF r1.w.escrows[id] = "none"
            THEN InitEscrowAccount(r1.w, maker, id, acc.sgor_mint)
        ELSE IF r1.w.escrows[id] # acc.sgor_mint
            THEN Err("ConstraintTokenMint", r1.w)
        ELSE r1

\* variant of the deposit that takes nothing from the maker of a
\* native-escrow order
BridgeCreateDeposit_NoNative(w, maker, amount, direction, acc) ==
    IF direction = 0 THEN
        IF acc.escrow_token_account = None
            THEN Err("MissingEscrowTokenAccount", w)
        ELSE IF acc.maker_token_account = None
            THEN Err("MissingMakerTokenAccount", w)
        ELSE IF MintOf(w, acc.maker_token_account) # SGOR_MINT
            THEN Err("InvalidMint", w)
        ELSE SplTransfer(w, acc.maker_token_account,
                         acc.escrow_token_account, User(maker), amount)
    ELSE IF direction = 1 THEN Ok(w)
    ELSE Err("InvalidDirection", w)

\* variant of the deposit that escrows the kind of the other direction
BridgeCreateDeposit_Swapped(w, maker, amount, direction, acc) ==
    IF direction = 1 THEN
        IF acc.escrow_token_account = None
            THEN Err("MissingEscrowTokenAccount", w)
        ELSE IF acc.maker_token_account = None
            THEN Err("MissingMakerTokenAccount", w)
        ELSE IF MintOf(w, acc.maker_token_account) # SGOR_MINT
            THEN Err("InvalidMint", w)
        ELSE SplTransfer(w, acc.maker_token_account,
                         acc.escrow_token_account, User(maker), amount)
    ELSE IF direction = 0 THEN
        SystemTransfer(w, User(maker), OrderPda(<<maker, amount>>), amount)
    ELSE Err("InvalidDirection", w)

\* the escrow deposit of create_order, `match direction`
BridgeCreateDeposit(w, maker, amount, direction, acc) ==
    LET id == <<maker, amount>>
    IN  IF direction = 0 THEN
            IF acc.escrow_token_account = None
                THEN Err("MissingEscrowTokenAccount", w)
            ELSE IF acc.maker_token_account = None
                THEN Err("MissingMakerTokenAccount", w)
            ELSE IF MintOf(w, acc.maker_token_account) # SGOR_MINT
                THEN Err("InvalidMint", w)
            ELSE SplTransfer(w, acc.maker_token_account,
                             acc.escrow_token_account, User(maker), amount)
        ELSE IF direction = 1 THEN
            SystemTransfer(w, User(maker), OrderPda(id), amount)
        ELSE Err("InvalidDirection", w)

\* pub fn create_order(ctx, amount, direction, expiration_slot)
BridgeCreateOrder(w, now, maker, amount, direction, expiration_slot, acc) ==
    LET id == <<maker, amount>>
        a == BridgeCreateAccounts(w, maker, amount, acc)
    IN  IF a.err # "Ok" THEN a
        ELSE IF ~AmountAllowed(amount) THEN Err("InvalidAmount", a.w)
        ELSE IF ~(direction <= 1) THEN Err("InvalidDirection", a.w)
        ELSE IF ~NotInPast(expiration_slot, now)
            THEN Err("ExpirationInPast", a.w)
        ELSE IF ~NotTooFar(expiration_slot, now)
            THEN Err("ExpirationTooFar", a.w)
        ELSE
            LET w1 == [a.w EXCEPT !.orders[id] =
                         [live |-> TRUE, maker |-> maker, amount |-> amount,
                          direction |-> direction,
                          expiration_slot |-> expiration_slot,
                          gorbagana_recipient |-> "",
                          is_filled |-> FALSE, bump |-> Bump(id)]]
                d == BridgeCreateDeposit(w1, maker, amount, direction, acc)
            IN  IF d.err # "Ok" THEN d
                ELSE Ok(Emit(d.w, "OrderCreated", id, maker))

\* struct FillOrder: order must be an Order account of the program; the maker
\* account must be order.maker; the four token accounts are optional and
\* carry no constraint
BridgeFillAccounts(w, id, makerSlot, acc) ==
    IF ~w.orders[id].live THEN Err("AccountNotInitialized", w)
    ELSE IF ~(/\ Loadable(w, acc.escrow_token_account)
              /\ Loadable(w, acc.taker_token_account)
              /\ Loadable(w, acc.taker_receive_token_account)
              /\ Loadable(w, acc.maker_receive_token_account))
        THEN Err("AccountNotInitialized", w)
    ELSE IF makerSlot # w.orders[id].maker THEN Err("Unauthorized", w)
    ELSE Ok(w)

\* variant of direction 0 that signs for whichever escrow account is named
BridgeFillDirection0_AnyVault(w, id, taker, makerSlot, acc) ==
    LET amount == w.orders[id].amount
        a == SystemTransfer(w, User(taker), User(makerSlot), amount)
    IN  IF a.err # "Ok" THEN a
        ELSE IF acc.escrow_token_account = None
            THEN Err("MissingEscrowTokenAccount", a.w)
        ELSE IF acc.taker_receive_token_account = None
            THEN Err("MissingTakerReceiveTokenAccount", a.w)
        ELSE SplTransfer(a.w, acc.escrow_token_account,
                         acc.taker_receive_token_account,
                         TokenAuthority(acc.escrow_token_account), amount)

\* variant of direction 0 that carries on when its second transfer cannot run
BridgeFillDirection0_IgnoreSecond(w, id, taker, makerSlot, acc) ==
    LET amount == w.orders[id].amount
        a == SystemTransfer(w, User(taker), User(makerSlot), amount)
        b == SplTransfer(a.w, acc.escrow_token_account,
                         acc.taker_receive_token_account, OrderPda(id), amount)
    IN  IF a.err # "Ok" THEN a
        ELSE IF acc.escrow_token_account = None THEN Ok(a.w)
        ELSE IF acc.taker_receive_token_account = None THEN Ok(a.w)
        ELSE IF b.err # "Ok" THEN Ok(a.w)
        ELSE b

\* direction 0 of fill_order: (a) taker pays native to maker, (b) escrow
\* releases sGOR to the taker's receive account
BridgeFillDirection0(w, id, taker, makerSlot, acc) ==
    LET amount == w.orders[id].amount
        a == SystemTransfer(w, User(taker), User(makerSlot), amount)
    IN  IF a.err # "Ok" THEN a
        ELSE IF acc.escrow_token_account = None
            THEN Err("MissingEscrowTokenAccount", a.w)
        ELSE IF acc.taker_receive_token_account = None
            THEN Err("MissingTakerReceiveTokenAccount", a.w)
        ELSE SplTransfer(a.w, acc.escrow_token_account,
                         acc.taker_receive_token_account, OrderPda(id), amount)

\* direction 1 of fill_order: (a) taker pays sGOR into the supplied
\* maker_receive_token_account, (b) the order PDA releases native to the taker
BridgeFillDirection1(w, id, taker, acc) ==
    LET amount == w.orders[id].amount
    IN  IF acc.taker_token_account = None
            THEN Err("MissingTakerTokenAccount", w)
        ELSE IF acc.maker_receive_token_account = None
            THEN Err("MissingMakerReceiveTokenAccount", w)
        ELSE IF MintOf(w, acc.taker_token_account) # SGOR_MINT
            THEN Err("InvalidMint", w)
        ELSE
            LET a == SplTransfer(w, acc.taker_token_account,
                                 acc.maker_receive_token_account,
                                 User(taker), amount)
            IN  IF a.err # "Ok" THEN a
                ELSE MoveLamports(a.w, OrderPda(id), User(taker), amount)

\* variant of the marking that leaves the flag as it is
BridgeMarkFilled_Noop(w, id) == w

\* order.is_filled = true, in fill_order
BridgeMarkFilled(w, id) == [w EXCEPT !.orders[id].is_filled = TRUE]

\* variant of the end of fill_order that emits no event
BridgeFillFinish_NoEvent(w, id, taker, makerSlot) ==
    CloseOrder([w EXCEPT !.orders[id].is_filled = TRUE], id, makerSlot)

\* the end of fill_order: order.is_filled = true, emit OrderFilled, and the
\* order account is closed to the maker (close = maker)
BridgeFillFinish(w, id, taker, makerSlot) ==
    LET w1 == BridgeMarkFilled(w, id)
        w2 == Emit(w1, "OrderFilled", id, taker)
    IN  CloseOrder(w2, id, makerSlot)

\* variant of the expiry guard that already refuses the expiration slot
BridgeFillNotExpired_Strict(now, order) == now < order.expiration_slot

\* the expiry guard of fill_order: Clock::get()?.slot <= order.expiration_slot
BridgeFillNotExpired(now, order) == now <= order.expiration_slot

\* pub fn fill_order(ctx)
BridgeFillOrder(w, now, id, taker, makerSlot, acc) ==
    LET a == BridgeFillAccounts(w, id, makerSlot, acc)
        order == w.orders[id]
    IN  IF a.err # "Ok" THEN a
        ELSE IF order.is_filled THEN Err("OrderAlreadyFilled", w)
        ELSE IF ~BridgeFillNotExpired(now, order) THEN Err("OrderExpired", w)
        ELSE
            LET m == IF order.direction = 0
                         THEN BridgeFillDirection0(w, id, taker, makerSlot, acc)
                     ELSE IF order.direction = 1
                         THEN BridgeFillDirection1(w, id, taker, acc)
                     ELSE Err("InvalidDirection", w)
            IN  IF m.err # "Ok" THEN m
                ELSE Ok(BridgeFillFinish(m.w, id, taker, makerSlot))

\* variant of the constraint without its custom error
BridgeCancelAccounts_DefaultError(w, id, caller, acc) ==
    IF ~w.orders[id].live THEN Err("AccountNotInitialized", w)
    ELSE IF ~(/\ Loadable(w, acc.escrow_token_account)
              /\ Loadable(w, acc.maker_token_account))
        THEN Err("AccountNotInitialized", w)
    ELSE IF w.orders[id].maker # caller THEN Err("ConstraintHasOne", w)
    ELSE Ok(w)

\* struct CancelOrder: has_one = maker @ Unauthorized
BridgeCancelAccounts(w, id, caller, acc) ==
    IF ~w.orders[id].live THEN Err("AccountNotInitialized", w)
    ELSE IF ~(/\ Loadable(w, acc.escrow_token_account)
              /\ Loadable(w, acc.maker_token_account))
        THEN Err("AccountNotInitialized", w)
    ELSE IF w.orders[id].maker # caller THEN Err("Unauthorized", w)
    ELSE Ok(w)

\* variant of the refund that leaves one unit of sGOR in the escrow account
BridgeCancelRefund_Short(w, id, caller, acc) ==
    LET amount == w.orders[id].amount
    IN  IF w.orders[id].direction = 0 THEN
            IF acc.escrow_token_account = None
                THEN Err("MissingEscrowTokenAccount", w)
            ELSE IF acc.maker_token_account = None
                THEN Err("MissingMakerTokenAccount", w)
            ELSE SplTransfer(w, acc.escrow_token_account,
                             acc.maker_token_account, OrderPda(id), amount - 1)
        ELSE IF w.orders[id].direction = 1 THEN
            MoveLamports(w, OrderPda(id), User(caller), amount)
        ELSE Err("InvalidDirection", w)

\* the refund of cancel_order, `match direction`
BridgeCancelRefund(w, id, caller, acc) ==
    LET amount == w.orders[id].amount
    IN  IF w.orders[id].direction = 0 THEN
            IF acc.escrow_token_account = None
                THEN Err("MissingEscrowTokenAccount", w)
            ELSE IF acc.maker_token_account = None
                THEN Err("MissingMakerTokenAccount", w)
            ELSE SplTransfer(w, acc.escrow_token_account,
                             acc.maker_token_account, OrderPda(id), amount)
        ELSE IF w.orders[id].direction = 1 THEN
            MoveLamports(w, OrderPda(id), User(caller), amount)
        ELSE Err("InvalidDirection", w)

\* variant of the checks that refuses a cancel after the expiration
BridgeCancelChecks_Expiry(order, caller) ==
    IF order.is_filled THEN "OrderAlreadyFilled"
    ELSE IF ~(caller = order.maker) THEN "Unauthorized"
    ELSE IF slot > order.expiration_slot THEN "OrderExpired"
    ELSE "Ok"

\* the two require! of cancel_order; there is no check of the clock
BridgeCancelChecks(order, caller) ==
    IF order.is_filled THEN "OrderAlreadyFilled"
    ELSE IF ~(caller = order.maker) THEN "Unauthorized"
    ELSE "Ok"

\* pub fn cancel_order(ctx); caller is the signer in the maker slot
BridgeCancelOrder(w, id, caller, acc) ==
    LET a == BridgeCancelAccounts(w, id, caller, acc)
        order == w.orders[id]
    IN  IF a.err # "Ok" THEN a
        ELSE IF BridgeCancelChecks(order, caller) # "Ok"
            THEN Err(BridgeCancelChecks(order, caller), w)
        ELSE
            LET m == BridgeCancelRefund(w, id, caller, acc)
            IN  IF m.err # "Ok" THEN m
                ELSE Ok(CloseOrder(Emit(m.w, "OrderCancelled", id, caller),
                                   id, caller))

----------------------------------------------------------------------------
(* solana_bridge: the single-asset engine *)

\* struct CreateOrder: order and escrow_token_account are both init; the
\* maker token account and the mint must be sGOR
SolanaCreateAccounts(w, maker, amount, acc) ==
    LET id == <<maker, amount>>
        r1 == InitOrderAccount(w, maker, id)
    IN  IF r1.err # "Ok" THEN r1
        ELSE IF ~TokenExists(r1.w, acc.maker_token_account)
            THEN Err("AccountNotInitialized", r1.w)
        ELSE IF acc.escrow_token_account # EscrowPda(id)
            THEN Err("ConstraintSeeds", r1.w)
        ELSE IF r1.w.escrows[id] # "none" THEN Err("AccountInUse", r1.w)
        ELSE
            LET r2 == InitEscrowAccount(r1.w, maker, id, acc.sgor_mint)
            IN  IF r2.err # "Ok" THEN r2
                ELSE IF MintOf(r2.w, acc.maker_token_account) # SGOR_MINT
                    THEN Err("InvalidMint", r2.w)
                ELSE IF acc.sgor_mint # SGOR_MINT THEN Err("InvalidMint", r2.w)
                ELSE r2

\* pub fn create_order(ctx, amount, expiration_slot, gorbagana_recipient)
SolanaCreateOrder(w, now, maker, amount, expiration_slot, recipient, acc) ==
    LET id == <<maker, amount>>
        a == SolanaCreateAccounts(w, maker, amount, acc)
    IN  IF a.err # "Ok" THEN a
        ELSE IF ~AmountAllowed(amount) THEN Err("InvalidAmount", a.w)
        ELSE IF ~NotInPast(expiration_slot, now)
            THEN Err("ExpirationInPast", a.w)
        ELSE IF ~NotTooFar(expiration_slot, now)
            THEN Err("ExpirationTooFar", a.w)
        ELSE
            LET w1 == [a.w EXCEPT !.orders[id] =
                         [live |-> TRUE, maker |-> maker, amount |-> amount,
                          direction |-> 0,
                          expiration_slot |-> expiration_slot,
                          gorbagana_recipient |-> recipient,
                          is_filled |-> FALSE, bump |-> Bump(id)]]
            IN  IF MintOf(w1, acc.maker_token_account) # SGOR_MINT
                    THEN Err("InvalidMint", w1)
                ELSE IF MintOf(w1, acc.escrow_token_account) # SGOR_MINT
                    THEN Err("InvalidMint", w1)
                ELSE
                    LET d == SplTransfer(w1, acc.maker_token_account,
                                         acc.escrow_token_account,
                                         User(maker), amount)
                    IN  IF d.err # "Ok" THEN d
                        ELSE Ok(Emit(d.w, "OrderCreated", id, maker))

\* struct FillOrder: maker must be order.maker; both token accounts must be
\* sGOR accounts
SolanaFillAccounts(w, id, makerSlot, acc) ==
    IF ~w.orders[id].live THEN Err("AccountNotInitialized", w)
    ELSE IF ~(/\ TokenExists(w, acc.escrow_token_account)
              /\ TokenExists(w, acc.taker_token_account))
        THEN Err("AccountNotInitialized", w)
    ELSE IF makerSlot # w.orders[id].maker THEN Err("Unauthorized", w)
    ELSE IF MintOf(w, acc.escrow_token_account) # SGOR_MINT
        THEN Err("InvalidMint", w)
    ELSE IF MintOf(w, acc.taker_token_account) # SGOR_MINT
        THEN Err("InvalidMint", w)
    ELSE Ok(w)

\* the body of fill_order after validation: the escrow releases sGOR to the
\* taker's token account; there is no other transfer
SolanaFillRelease(w, id, acc) ==
    IF MintOf(w, acc.taker_token_account) # SGOR_MINT THEN Err("InvalidMint", w)
    ELSE SplTransfer(w, acc.escrow_token_account, acc.taker_token_account,
                     OrderPda(id), w.orders[id].amount)

\* order.is_filled = true, in fill_order
SolanaMarkFilled(w, id) == [w EXCEPT !.orders[id].is_filled = TRUE]

\* the end of fill_order: order.is_filled = true, emit OrderFilled, and the
\* order account is closed to the maker (close = maker)
SolanaFillFinish(w, id, taker, makerSlot) ==
    LET w1 == SolanaMarkFilled(w, id)
        w2 == Emit(w1, "OrderFilled", id, taker)
    IN  CloseOrder(w2, id, makerSlot)

\* the expiry guard of fill_order: Clock::get()?.slot <= order.expiration_slot
SolanaFillNotExpired(now, order) == now <= order.expiration_slot

\* pub fn fill_order(ctx)
SolanaFillOrder(w, now, id, taker, makerSlot, acc) ==
    LET a == SolanaFillAccounts(w, id, makerSlot, acc)
        order == w.orders[id]
    IN  IF a.err # "Ok" THEN a
        ELSE IF order.is_filled THEN Err("OrderAlreadyFilled", w)
        ELSE IF ~SolanaFillNotExpired(now, order) THEN Err("OrderExpired", w)
        ELSE
            LET m == SolanaFillRelease(w, id, acc)
            IN  IF m.err # "Ok" THEN m
                ELSE Ok(SolanaFillFinish(m.w, id, taker, makerSlot))

\* struct CancelOrder: has_one = maker @ Unauthorized
SolanaCancelAccounts(w, id, caller, acc) ==
    IF ~w.orders[id].live THEN Err("AccountNotInitialized", w)
    ELSE IF ~(/\ TokenExists(w, acc.escrow_token_account)
              /\ TokenExists(w, acc.maker_token_account))
        THEN Err("AccountNotInitialized", w)
    ELSE IF w.orders[id].maker # caller THEN Err("Unauthorized", w)
    ELSE Ok(w)

\* the two require! of cancel_order; there is no check of the clock
SolanaCancelChecks(order, caller) ==
    IF order.is_filled THEN "OrderAlreadyFilled"
    ELSE IF ~(caller = order.maker) THEN "Unauthorized"
    ELSE "Ok"

\* pub fn cancel_order(ctx); caller is the signer in the maker slot
SolanaCancelOrder(w, id, caller, acc) ==
    LET a == SolanaCancelAccounts(w, id, caller, acc)
        order == w.orders[id]
    IN  IF a.err # "Ok" THEN a
        ELSE IF SolanaCancelChecks(order, caller) # "Ok"
            THEN Err(SolanaCancelChecks(order, caller), w)
        ELSE
            LET m == SplTransfer(w, acc.escrow_token_account,
                                 acc.maker_token_account, OrderPda(id),
                                 order.amount)
            IN  IF m.err # "Ok" THEN m
                ELSE Ok(CloseOrder(Emit(m.w, "OrderCancelled", id, caller),
                                   id, caller))

----------------------------------------------------------------------------
(* Inputs *)

ValidAmounts == {a \in Amounts : a >= MIN_ORDER_AMOUNT}
ValidIds == Users \X ValidAmounts
\* the escrow accounts a caller may name for order id: its own, and those of
\* the same maker's other amounts
EscrowChoices(id) ==
    {EscrowPda(id)} \cup {EscrowPda(<<id[1], a>>) : a \in ValidAmounts \ {id[2]}}
\* A party names its own token accounts (sGOR or another mint) where the
\* instruction expects its account.
OwnChoices(u) == {Ata(u), Alt(u)}
MintChoices == {SGOR_MINT, OTHER_MINT}
ExpirationChoices(now) ==
    {now, now + 1, now + MAX_EXPIRY_SLOTS, now + MAX_EXPIRY_SLOTS + 1}
Recipients == {"gor_recipient"}

\* create_order of bridge: the signer, the instruction data, the accounts
BridgeCreateAccs(maker, amount) ==
    {[escrow_token_account |-> e, maker_token_account |-> t,
      sgor_mint |-> IF e = None THEN "none" ELSE mint] :
        e \in {None, EscrowPda(<<maker, amount>>)},
        t \in {None} \cup OwnChoices(maker), mint \in MintChoices}
BridgeCreateInputsOf(maker, amount) ==
    {[maker |-> maker, amount |-> amount, direction |-> direction,
      expiration_slot |-> expiration_slot, acc |-> acc] :
        direction \in 0..2,
        expiration_slot \in ExpirationChoices(slot),
        acc \in BridgeCreateAccs(maker, amount)}
BridgeCreateInputs ==
    UNION {BridgeCreateInputsOf(maker, amount) :
           maker \in Users, amount \in Amounts}

\* fill_order of bridge.  The handler reads only the two optional accounts of
\* the order's direction; the other two are left out (None).  The account to
\* receive the maker's tokens is named by the taker: the maker's, the taker's
\* own, or the escrow account of an order.
BridgeFillAccsDir(id, taker, direction) ==
    IF direction = 0 THEN
        {[escrow_token_account |-> e, taker_token_account |-> None,
          taker_receive_token_account |-> r,
          maker_receive_token_account |-> None] :
            e \in {None} \cup EscrowChoices(id),
            r \in {None} \cup OwnChoices(taker)}
    ELSE
        {[escrow_token_account |-> None, taker_token_account |-> t,
          taker_receive_token_account |-> None,
          maker_receive_token_account |-> r] :
            t \in {None, Ata(id[1])} \cup OwnChoices(taker),
            r \in {None, Ata(id[1])} \cup OwnChoices(taker)
                    \cup EscrowChoices(id)}
\* On an order that does not exist the instruction fails before it looks at
\* any token account.
BridgeFillAccs(id, taker) ==
    IF ~orders[id].live THEN
        {[escrow_token_account |-> None, taker_token_account |-> None,
          taker_receive_token_account |-> None,
          maker_receive_token_account |-> None]}
    ELSE BridgeFillAccsDir(id, taker, orders[id].direction)
BridgeFillInputs ==
    UNION {{[id |-> id, taker |-> taker, makerSlot |-> m, acc |-> acc] :
               m \in {id[1], taker}, acc \in BridgeFillAccs(id, taker)} :
           id \in ValidIds, taker \in Users}

BridgeCancelAccs(id, caller) ==
    IF ~orders[id].live THEN
        {[escrow_token_account |-> None, maker_token_account |-> None]}
    ELSE
        {[escrow_token_account |-> e, maker_token_account |-> t] :
            e \in {None} \cup EscrowChoices(id),
            t \in {None} \cup OwnChoices(caller)}
BridgeCancelInputs ==
    UNION {{[id |-> id, caller |-> caller, acc |-> acc] :
               acc \in BridgeCancelAccs(id, caller)} :
           id \in ValidIds, caller \in Users}

SolanaCreateAccs(maker, amount) ==
    {[escrow_token_account |-> EscrowPda(<<maker, amount>>),
      maker_token_account |-> t, sgor_mint |-> mint] :
        t \in OwnChoices(maker), mint \in MintChoices}
SolanaCreateInputsOf(maker, amount) ==
    {[maker |-> maker, amount |-> amount,
      expiration_slot |-> expiration_slot, recipient |-> recipient,
      acc |-> acc] :
        expiration_slot \in ExpirationChoices(slot),
        recipient \in Recipients,
        acc \in SolanaCreateAccs(maker, amount)}
SolanaCreateInputs ==
    UNION {SolanaCreateInputsOf(maker, amount) :
           maker \in Users, amount \in Amounts}

SolanaFillAccs(id, taker) ==
    IF ~orders[id].live THEN
        {[escrow_token_account |-> EscrowPda(id),
          taker_token_account |-> Ata(taker)]}
    ELSE
        {[escrow_token_account |-> e, taker_token_account |-> t] :
            e \in EscrowChoices(id) \cup {Ata(id[1])},
            t \in OwnChoices(taker)}
SolanaFillInputs ==
    UNION {{[id |-> id, taker |-> taker, makerSlot |-> m, acc |-> acc] :
               m \in {id[1], taker}, acc \in SolanaFillAccs(id, taker)} :
           id \in ValidIds, taker \in Users}

SolanaCancelAccs(id, caller) ==
    IF ~orders[id].live THEN
        {[escrow_token_account |-> EscrowPda(id),
          maker_token_account |-> Ata(caller)]}
    ELSE
        {[escrow_token_account |-> e, maker_token_account |-> t] :
            e \in EscrowChoices(id), t \in OwnChoices(caller)}
SolanaCancelInputs ==
    UNION {{[id |-> id, caller |-> caller, acc |-> acc] :
               acc \in SolanaCancelAccs(id, caller)} :
           id \in ValidIds, caller \in Users}

\* the handlers applied to the current accounts
BridgeCreateResult(in) ==
    BridgeCreateOrder(World, slot, in.maker, in.amount, in.direction,
                      in.expiration_slot, in.acc)
BridgeFillResult(in) ==
    BridgeFillOrder(World, slot, in.id, in.taker, in.makerSlot, in.acc)
BridgeCancelResult(in) == BridgeCancelOrder(World, in.id, in.caller, in.acc)
SolanaCreateResult(in) ==
    SolanaCreateOrder(World, slot, in.maker, in.amount, in.expiration_slot,
                      in.recipient, in.acc)
SolanaFillResult(in) ==
    SolanaFillOrder(World, slot, in.id, in.taker, in.makerSlot, in.acc)
SolanaCancelResult(in) == SolanaCancelOrder(World, in.id, in.caller, in.acc)

\* what the maker's own accounts lost of the escrowed kind in a create that
\* led from w to v, the deposits of the two new accounts left aside
Debited(w, v, maker, id) ==
    IF v.orders[id].direction = 1 /\ engine = "bridge"
    THEN (w.lamports[User(maker)] - v.lamports[User(maker)])
            - OrderRent - (v.lamports[EscrowPda(id)] - w.lamports[EscrowPda(id)])
    ELSE w.tokens[Ata(maker)] - v.tokens[Ata(maker)]

\* The accounts an instruction leaves behind: the runtime keeps the handler's
\* writes only when it returned Ok, and discards all of them otherwise.
\* Commit the outcome r of an instruction.  The accounts change only when it
\* returned Ok: a failed instruction leaves every variable as it was.  `last`
\* is the history of the last instruction that took effect (order: the Order
\* record it created or consumed); debit[id] is what the create of the order
\* took from its maker.
Retained(r) == IF r.err = "Ok" THEN r.w ELSE World
Commit(r, op, caller, id) ==
    /\ lamports' = Retained(r).lamports
    /\ tokens' = Retained(r).tokens
    /\ orders' = Retained(r).orders
    /\ escrows' = Retained(r).escrows
    /\ events' = Retained(r).events
    /\ IF r.err = "Ok"
       THEN /\ last' = [op |-> op, caller |-> caller, id |-> id,
                        order |-> IF op = "create" THEN r.w.orders[id]
                                  ELSE orders[id]]
            /\ debit' = IF op = "create"
                        THEN [debit EXCEPT ![id] = Debited(World, r.w, caller, id)]
                        ELSE debit
       ELSE UNCHANGED <<last, debit>>
    /\ UNCHANGED <<engine, slot, mining, gor>>

NoId == <<"", 0>>
Created == Len(SelectSeq(events, LAMBDA e : e.kind = "OrderCreated"))
CanCreate == Created < MaxOrders

----------------------------------------------------------------------------
(* Actions *)

Tick ==
    /\ slot < MaxSlot
    /\ slot' = slot + 1
    /\ last' = [op |-> "tick", caller |-> "", id |-> NoId, order |-> NoOrder]
    /\ UNCHANGED <<engine, lamports, tokens, orders, escrows, events, debit,
                   mining, gor>>

BridgeCreate ==
    /\ engine = "bridge"
    /\ CanCreate
    /\ \E in \in BridgeCreateInputs :
          Commit(BridgeCreateResult(in), "create", in.maker,
                 <<in.maker, in.amount>>)

BridgeFill ==
    /\ engine = "bridge"
    /\ \E in \in BridgeFillInputs :
          Commit(BridgeFillResult(in), "fill", in.taker, in.id)

BridgeCancel ==
    /\ engine = "bridge"
    /\ \E in \in BridgeCancelInputs :
          Commit(BridgeCancelResult(in), "cancel", in.caller, in.id)

SolanaCreate ==
    /\ engine = "solana_bridge"
    /\ CanCreate
    /\ \E in \in SolanaCreateInputs :
          Commit(SolanaCreateResult(in), "create", in.maker,
                 <<in.maker, in.amount>>)

SolanaFill ==
    /\ engine = "solana_bridge"
    /\ \E in \in SolanaFillInputs :
          Commit(SolanaFillResult(in), "fill", in.taker, in.id)

SolanaCancel ==
    /\ engine = "solana_bridge"
    /\ \E in \in SolanaCancelInputs :
          Commit(SolanaCancelResult(in), "cancel", in.caller, in.id)

----------------------------------------------------------------------------
(* vanity_miner: the metered ledger *)

\* Lamports are counted one by one.  The runtime's rent-exemption rule for
\* the balance an account is left with is outside the program and is not
\* modelled; the rent deposit of a mining account is.

\* widths of the ledger's counters.  Both stand for values above every
\* amount of the model (2^64 - 1 and 2^32 - 1 in the program).
U64_MAX == 2147483647
U32_MAX == 2147483646

\* amounts offered to deposit and costs offered to charge_for_batch: 0..MaxGor
MaxGor == 2
\* rent deposit of a mining account
MiningRent == 1
\* at most MaxReceipts events are ever emitted by the ledger
MaxReceipts == 4

\* seeds = [b"mining", user]
MiningPda(u) == <<"mining", u, 0>>
\* seeds = [b"vault"]
Vault == <<"vault", "", 0>>
\* const TREASURY
Treasury == <<"treasury", "", 0>>

GorAccts == {User(u) : u \in Users} \cup {MiningPda(u) : u \in Users}
               \cup {Vault, Treasury}
GorAmounts == 0..MaxGor

NoMiningAccount == [live |-> FALSE, owner |-> "", balance |-> 0,
                    total_spent |-> 0, matches_found |-> 0,
                    is_active |-> FALSE, bump |-> 0]

\* The ledger's accounts as one value, the form its handlers work on.
Ledger == [lamports |-> gor, mining |-> mining, events |-> events, xfers |-> 0]

\* a.checked_add(b) is Some
AddFits(a, b, max) == a <= max - b
\* a.checked_sub(b) is Some
SubFits(a, b) == a >= b

EmitEvent(w, e) == [w EXCEPT !.events = Append(@, e)]

\* #[account(init, payer = user, seeds = [b"mining", user])]
InitMiningAccount(w, user) ==
    IF w.mining[user].live THEN Err("AccountInUse", w)
    ELSE IF w.lamports[User(user)] < MiningRent THEN Err("InsufficientLamports", w)
    ELSE Ok([w EXCEPT !.lamports[User(user)] = @ - MiningRent,
                      !.lamports[MiningPda(user)] = @ + MiningRent,
                      !.mining[user] = [NoMiningAccount EXCEPT !.live = TRUE]])

Bump_Mining(user) == 254

initialize_user(w, user) ==
    LET a == InitMiningAccount(w, user) IN
    IF a.err # "Ok" THEN a
    ELSE Ok([a.w EXCEPT !.mining[user] =
                [live |-> TRUE, owner |-> user, balance |-> 0,
                 total_spent |-> 0, matches_found |-> 0,
                 is_active |-> FALSE, bump |-> Bump_Mining(user)]])

\* mining_account of Deposit, ChargeForBatch, Withdraw and RecordMatch: the
\* account the caller passes is the mining account of `of`
MiningAccountChecks(w, user, of) ==
    IF ~w.mining[of].live THEN "AccountNotInitialized"
    ELSE IF MiningPda(of) # MiningPda(user) THEN "ConstraintSeeds"
    ELSE IF w.mining[of].owner # user THEN "Unauthorized"
    ELSE "Ok"

\* vault: seeds = [b"vault"]
VaultChecks(vault) == IF vault # Vault THEN "ConstraintSeeds" ELSE "Ok"

\* treasury: constraint = treasury.key().to_string() == TREASURY
TreasuryChecks(treasury) ==
    IF treasury # Treasury THEN "InvalidTreasury" ELSE "Ok"

FirstError(checks) ==
    LET bad == {i \in 1..Len(checks) : checks[i] # "Ok"} IN
    IF bad = {} THEN "Ok"
    ELSE checks[CHOOSE i \in bad : \A j \in bad : i <= j]

DepositAccounts(w, in) ==
    FirstError(<<MiningAccountChecks(w, in.user, in.mining_account),
                 VaultChecks(in.vault)>>)

\* variant of deposit that credits the record without moving the funds
deposit_NoTransfer(w, in) ==
    IF ~(in.amount > 0) THEN Err("InvalidAmount", w)
    ELSE IF ~AddFits(w.mining[in.user].balance, in.amount, U64_MAX)
    THEN Err("Overflow", w)
    ELSE LET v == [w EXCEPT !.mining[in.user].balance = @ + in.amount] IN
    Ok(EmitEvent(v, [kind |-> "DepositEvent", user |-> in.user,
                     amount |-> in.amount,
                     new_balance |-> v.mining[in.user].balance]))

deposit(w, in) ==
    IF ~(in.amount > 0) THEN Err("InvalidAmount", w)
    ELSE LET t == SystemTransfer(w, User(in.user), in.vault, in.amount) IN
    IF t.err # "Ok" THEN t
    ELSE IF ~AddFits(t.w.mining[in.user].balance, in.amount, U64_MAX)
    THEN Err("Overflow", t.w)
    ELSE LET v == [t.w EXCEPT !.mining[in.user].balance = @ + in.amount] IN
    Ok(EmitEvent(v, [kind |-> "DepositEvent", user |-> in.user,
                     amount |-> in.amount,
                     new_balance |-> v.mining[in.user].balance]))

ChargeForBatchAccounts(w, in) ==
    FirstError(<<MiningAccountChecks(w, in.user, in.mining_account),
                 VaultChecks(in.vault),
                 TreasuryChecks(in.treasury)>>)

\* variant of the balance check that only asks for a non-empty balance
SufficientBalance_NonEmpty(balance, cost) == balance > 0 \/ cost = 0

SufficientBalance(balance, cost) == balance >= cost

\* variant of charge_for_batch that does not add the cost to total_spent
charge_for_batch_NoSpent(w, in) ==
    LET m == w.mining[in.user] IN
    IF ~SufficientBalance(m.balance, in.cost) THEN Err("InsufficientBalance", w)
    ELSE IF ~SubFits(m.balance, in.cost) THEN Err("Overflow", w)
    ELSE LET v == [w EXCEPT !.mining[in.user].balance = @ - in.cost]
             t == SystemTransfer(v, in.vault, in.treasury, in.cost) IN
    IF t.err # "Ok" THEN t
    ELSE Ok(EmitEvent(t.w, [kind |-> "BatchChargedEvent", user |-> in.user,
                            cost |-> in.cost,
                            remaining_balance |-> t.w.mining[in.user].balance]))

charge_for_batch(w, in) ==
    LET m == w.mining[in.user] IN
    IF ~SufficientBalance(m.balance, in.cost) THEN Err("InsufficientBalance", w)
    ELSE IF ~SubFits(m.balance, in.cost) THEN Err("Overflow", w)
    ELSE IF ~AddFits(m.total_spent, in.cost, U64_MAX) THEN Err("Overflow", w)
    ELSE LET v == [w EXCEPT !.mining[in.user].balance = @ - in.cost,
                            !.mining[in.user].total_spent = @ + in.cost]
             t == SystemTransfer(v, in.vault, in.treasury, in.cost) IN
    IF t.err # "Ok" THEN t
    ELSE Ok(EmitEvent(t.w, [kind |-> "BatchChargedEvent", user |-> in.user,
                            cost |-> in.cost,
                            remaining_balance |-> t.w.mining[in.user].balance]))

WithdrawAccounts(w, in) ==
    FirstError(<<MiningAccountChecks(w, in.user, in.mining_account),
                 VaultChecks(in.vault)>>)

\* variant of withdraw that pays out and leaves the recorded balance
withdraw_KeepBalance(w, in) ==
    LET amount == w.mining[in.user].balance IN
    IF ~(amount > 0) THEN Err("NoBalance", w)
    ELSE LET t == SystemTransfer(w, in.vault, User(in.user), amount) IN
    IF t.err # "Ok" THEN t
    ELSE Ok(EmitEvent(t.w, [kind |-> "WithdrawEvent", user |-> in.user,
                            amount |-> amount]))

withdraw(w, in) ==
    LET amount == w.mining[in.user].balance IN
    IF ~(amount > 0) THEN Err("NoBalance", w)
    ELSE LET t == SystemTransfer(w, in.vault, User(in.user), amount) IN
    IF t.err # "Ok" THEN t
    ELSE Ok(EmitEvent([t.w EXCEPT !.mining[in.user].balance = 0],
                      [kind |-> "WithdrawEvent", user |-> in.user,
                       amount |-> amount]))

RecordMatchAccounts(w, in) ==
    MiningAccountChecks(w, in.user, in.mining_account)

record_match(w, in, now) ==
    IF ~AddFits(w.mining[in.user].matches_found, 1, U32_MAX)
    THEN Err("Overflow", w)
    ELSE LET v == [w EXCEPT !.mining[in.user].matches_found = @ + 1] IN
    Ok(EmitEvent(v, [kind |-> "MatchFound", user |-> in.user,
                     address |-> in.address, timestamp |-> now,
                     total_matches |-> v.mining[in.user].matches_found]))

\* An instruction: the account validation of its struct, then its handler.
Instruction(check, handled, w) == IF check # "Ok" THEN Err(check, w) ELSE handled

VaultChoices == {Vault, Treasury}
TreasuryChoices == {Treasury, Vault} \cup {User(u) : u \in Users}
Addresses == {"gor1", "trash"}

InitializeUserInputs == Users
DepositInputs ==
    [user : Users, mining_account : Users, vault : VaultChoices,
     amount : GorAmounts]
ChargeForBatchInputs ==
    [user : Users, mining_account : Users, vault : VaultChoices,
     treasury : TreasuryChoices, cost : GorAmounts]
WithdrawInputs == [user : Users, mining_account : Users, vault : VaultChoices]
RecordMatchInputs == [user : Users, mining_account : Users, address : Addresses]

InitializeUserResult(user) == initialize_user(Ledger, user)
DepositResult(in) ==
    Instruction(DepositAccounts(Ledger, in), deposit(Ledger, in), Ledger)
ChargeForBatchResult(in) ==
    Instruction(ChargeForBatchAccounts(Ledger, in),
                charge_for_batch(Ledger, in), Ledger)
WithdrawResult(in) ==
    Instruction(WithdrawAccounts(Ledger, in), withdraw(Ledger, in), Ledger)
RecordMatchResult(in) ==
    Instruction(RecordMatchAccounts(Ledger, in),
                record_match(Ledger, in, slot), Ledger)

\* Commit the outcome r of a ledger instruction: the accounts change only
\* when it returned Ok.  `last` records the instruction and its argument.
Booked(r) == IF r.err = "Ok" THEN r.w ELSE Ledger
Book(r, op, caller, arg) ==
    /\ mining' = Booked(r).mining
    /\ gor' = Booked(r).lamports
    /\ events' = Booked(r).events
    /\ last' = IF r.err = "Ok"
               THEN [op |-> op, caller |-> caller, id |-> NoId,
                     order |-> NoOrder, arg |-> arg]
               ELSE last
    /\ UNCHANGED <<engine, slot, lamports, tokens, orders, escrows, debit>>

CanEmit == Len(events) < MaxReceipts

InitializeUser ==
    /\ engine = "vanity_miner"
    /\ \E user \in InitializeUserInputs :
          Book(InitializeUserResult(user), "initialize_user", user, 0)

Deposit ==
    /\ engine = "vanity_miner"
    /\ CanEmit
    /\ \E in \in DepositInputs :
          Book(DepositResult(in), "deposit", in.user, in.amount)

ChargeForBatch ==
    /\ engine = "vanity_miner"
    /\ CanEmit
    /\ \E in \in ChargeForBatchInputs :
          Book(ChargeForBatchResult(in), "charge_for_batch", in.user, in.cost)

Withdraw ==
    /\ engine = "vanity_miner"
    /\ CanEmit
    /\ \E in \in WithdrawInputs :
          Book(WithdrawResult(in), "withdraw", in.user,
               mining[in.user].balance)

RecordMatch ==
    /\ engine = "vanity_miner"
    /\ CanEmit
    /\ \E in \in RecordMatchInputs :
          Book(RecordMatchResult(in), "record_match", in.user, 0)

----------------------------------------------------------------------------

(* Specifications *)

\* alice can fund two orders and their deposits; bob holds native and carol
\* sGOR for one minimum order, bob also sGOR
InitLamports ==
    [a \in NativeAccts |->
        IF a = User("alice") THEN 2 * MIN_ORDER_AMOUNT + 2 * (OrderRent + TokenRent)
        ELSE IF a = User("bob") THEN MIN_ORDER_AMOUNT
        ELSE 0]
InitTokens ==
    [a \in TokenAccts |->
        IF a = Ata("alice") THEN 3 * MIN_ORDER_AMOUNT
        ELSE IF a = Ata("carol") THEN MIN_ORDER_AMOUNT
        ELSE IF a[1] = "alt" THEN MIN_ORDER_AMOUNT
        ELSE 0]

\* alice and bob can open a mining account and deposit; carol holds nothing
InitGor ==
    [a \in GorAccts |->
        IF a = User("alice") THEN MaxGor + 1 + MiningRent
        ELSE IF a = User("bob") THEN MaxGor + MiningRent
        ELSE 0]

InitAccounts ==
    /\ slot = 0
    /\ lamports = InitLamports
    /\ tokens = InitTokens
    /\ orders = [id \in OrderIds |-> NoOrder]
    /\ escrows = [id \in OrderIds |-> "none"]
    /\ events = <<>>
    /\ last = [op |-> "init", caller |-> "", id |-> NoId, order |-> NoOrder]
    /\ debit = [id \in OrderIds |-> 0]
    /\ mining = [u \in Users |-> NoMiningAccount]
    /\ gor = InitGor

InitBridge == engine = "bridge" /\ InitAccounts
InitSolana == engine = "solana_bridge" /\ InitAccounts
InitVanity == engine = "vanity_miner" /\ InitAccounts
Init == InitBridge \/ InitSolana

NextBridge == BridgeCreate \/ BridgeFill \/ BridgeCancel \/ Tick
NextSolana == SolanaCreate \/ SolanaFill \/ SolanaCancel \/ Tick
NextVanity == InitializeUser \/ Deposit \/ ChargeForBatch \/ Withdraw
                \/ RecordMatch
Next == BridgeCreate \/ BridgeFill \/ BridgeCancel
          \/ SolanaCreate \/ SolanaFill \/ SolanaCancel \/ Tick

SpecBridge == InitBridge /\ [][NextBridge]_vars
SpecSolana == InitSolana /\ [][NextSolana]_vars
SpecVanity == InitVanity /\ [][NextVanity]_vars
Spec == Init /\ [][Next]_vars

-----------------------------------------------------------------------------
(* Properties *)

\* A step in which instruction op took effect: every instruction that returns
\* Ok appends exactly one event.
Took(op) == last'.op = op /\ Len(events') = Len(events) + 1

Gain(cond, amount) == IF cond THEN amount ELSE 0

\* The two legs of a fill of the bidirectional engine as net balance changes,
\* for maker m, taker t and order amount A (m = t allowed): the counter-asset
\* moves A from t to m, the escrowed asset moves A from the vault to t, and
\* the order account's deposit returns to m.
BridgeFillLegs ==
    LET id == last'.id
        o == orders[id]
        A == o.amount
        m == o.maker
        t == last'.caller
        rent == lamports[OrderPda(id)] - Gain(o.direction = 1, A)
    IN  IF o.direction = 0 THEN
            /\ \A u \in Users :
                 lamports'[User(u)] = lamports[User(u)]
                     + Gain(u = m, A + rent) - Gain(u = t, A)
            /\ tokens'[EscrowPda(id)] = tokens[EscrowPda(id)] - A
            /\ \A u \in Users :
                 tokens'[Ata(u)] = tokens[Ata(u)] + Gain(u = t, A)
        ELSE
            /\ \A u \in Users :
                 tokens'[Ata(u)] = tokens[Ata(u)]
                     + Gain(u = m, A) - Gain(u = t, A)
            /\ lamports'[OrderPda(id)] = 0
            /\ \A u \in Users :
                 lamports'[User(u)] = lamports[User(u)]
                     + Gain(u = t, A) + Gain(u = m, rent)

\* C1: every successful fill of the bidirectional engine moves the order
\* amount of the counter-asset from the taker to the order's maker and the
\* order amount of the escrowed asset from the vault to the taker, whichever
\* optional accounts (the maker-receive account in particular) were supplied.
C1_FillMovesBothLegs == [][Took("fill") => BridgeFillLegs]_vars

\* C2: in every successful fill of the single-asset engine the taker delivers
\* the order amount of sGOR to the order's maker within the same operation.
C2_FillDeliversToMaker ==
    [][Took("fill") =>
        LET o == orders[last'.id]
        IN  last'.caller # o.maker =>
                tokens'[Ata(o.maker)] = tokens[Ata(o.maker)] + o.amount]_vars

\* what a successful create leaves behind, for both engines: an Open order
\* with the supplied fields, is_filled false, and exactly `amount` of the
\* escrowed kind moved from the maker into the order's vault
CreateEffect(in, v, direction) ==
    LET id == <<in.maker, in.amount>>
        o == v.orders[id]
        A == in.amount
        escrowRent == v.lamports[EscrowPda(id)] - lamports[EscrowPda(id)]
    IN  /\ ~orders[id].live
        /\ o.live /\ ~o.is_filled
        /\ o.maker = in.maker /\ o.amount = A
        /\ o.direction = direction
        /\ o.expiration_slot = in.expiration_slot
        /\ Len(v.events) = Len(events) + 1
        /\ v.events[Len(v.events)] =
               [kind |-> "OrderCreated", order |-> id, who |-> in.maker]
        /\ IF direction = 1 THEN
               /\ v.lamports[OrderPda(id)] = OrderRent + A
               /\ v.lamports[User(in.maker)] =
                      lamports[User(in.maker)] - OrderRent - escrowRent - A
               /\ v.tokens = tokens
           ELSE
               /\ v.tokens[EscrowPda(id)] = tokens[EscrowPda(id)] + A
               /\ v.tokens[Ata(in.maker)] = tokens[Ata(in.maker)] - A
               /\ v.lamports[OrderPda(id)] = OrderRent
               /\ v.lamports[User(in.maker)] =
                      lamports[User(in.maker)] - OrderRent - escrowRent

\* C3: a successful create_order moves exactly `amount` of the escrowed asset
\* from the maker into the order's vault and leaves an Open order carrying the
\* maker, amount, direction and expiration supplied, with is_filled false.
C3_CreateEscrowsAmount ==
    /\ engine = "bridge" /\ CanCreate =>
         \A in \in BridgeCreateInputs :
            LET r == BridgeCreateResult(in)
            IN  r.err = "Ok" => CreateEffect(in, r.w, in.direction)
    /\ engine = "solana_bridge" /\ CanCreate =>
         \A in \in SolanaCreateInputs :
            LET r == SolanaCreateResult(in)
            IN  r.err = "Ok" => CreateEffect(in, r.w, 0)

\* a native-escrow order has just been created and its vault holds the amount
C3_Witness ==
    /\ last.op = "create"
    /\ orders[last.id] = last.order
    /\ last.order.direction = 1
    /\ lamports[OrderPda(last.id)] = OrderRent + last.order.amount

\* instructions run on accounts w at the current slot
FillOn(w, in) ==
    IF engine = "bridge"
    THEN BridgeFillOrder([w EXCEPT !.xfers = 0], slot, in.id, in.taker,
                         in.makerSlot, in.acc)
    ELSE SolanaFillOrder([w EXCEPT !.xfers = 0], slot, in.id, in.taker,
                         in.makerSlot, in.acc)
CancelOn(w, in) ==
    IF engine = "bridge"
    THEN BridgeCancelOrder([w EXCEPT !.xfers = 0], in.id, in.caller, in.acc)
    ELSE SolanaCancelOrder([w EXCEPT !.xfers = 0], in.id, in.caller, in.acc)
FillInputs == IF engine = "bridge" THEN BridgeFillInputs ELSE SolanaFillInputs
CancelInputs ==
    IF engine = "bridge" THEN BridgeCancelInputs ELSE SolanaCancelInputs

\* the accounts are those of the current state, the order of id still Open
Untouched(w, id) ==
    /\ w.lamports = lamports /\ w.tokens = tokens /\ w.orders = orders
    /\ w.escrows = escrows /\ w.events = events
    /\ w.orders[id].live => ~w.orders[id].is_filled

\* the number of transfers a complete fill executes
FillLegs == IF engine = "bridge" THEN 2 ELSE 1

\* the vault of order id holds A less in v than now
VaultReleased(v, id, A) ==
    IF engine = "bridge" /\ orders[id].direction = 1
    THEN lamports[OrderPda(id)] >= A /\ v.lamports[OrderPda(id)] = 0
    ELSE v.tokens[EscrowPda(id)] = tokens[EscrowPda(id)] - A

\* C4: a fill either completes all its transfers, destroys the order and
\* emits OrderFilled, or - failing at any point, also after its first
\* transfer has executed - retains no effect: every balance, the vault and
\* the order are as before and the order is still Open and unfilled.
C4_FillAllOrNothing ==
    \A in \in FillInputs :
        LET r == FillOn(World, in)
        IN  IF r.err = "Ok" THEN
                /\ r.w.xfers = FillLegs
                /\ VaultReleased(r.w, in.id, orders[in.id].amount)
                /\ ~r.w.orders[in.id].live
                /\ r.w.events = Append(events, [kind |-> "OrderFilled",
                                                order |-> in.id,
                                                who |-> in.taker])
            ELSE Untouched(Retained(r), in.id)

\* a fill whose first transfer executed and which then failed
C4_Witness ==
    \E in \in FillInputs :
        /\ orders[in.id].live
        /\ FillOn(World, in).err # "Ok"
        /\ FillOn(World, in).w.xfers = 1
        /\ FillOn(World, in).w.lamports # lamports
        /\ Retained(FillOn(World, in)).lamports = lamports

OkFills(id) ==
    {in \in FillInputs : in.id = id /\ FillOn(World, in).err = "Ok"}
OkCancels(id) ==
    {in \in CancelInputs : in.id = id /\ CancelOn(World, in).err = "Ok"}

\* C5: of two operations on the same Open order that would each succeed
\* alone (two fills by different takers, or a fill and a cancel), whichever
\* commits first emits its terminal event exactly once and the other then
\* fails, changing nothing.
C5_SingleWinner ==
    \A id \in ValidIds :
        /\ \A f \in OkFills(id) :
             LET v == FillOn(World, f).w
             IN  /\ v.events = Append(events, [kind |-> "OrderFilled",
                                               order |-> id, who |-> f.taker])
                 /\ \A g \in OkFills(id) :
                      g.taker # f.taker => FillOn(v, g).err # "Ok"
                 /\ \A c \in OkCancels(id) : CancelOn(v, c).err # "Ok"
        /\ \A c \in OkCancels(id) :
             LET v == CancelOn(World, c).w
             IN  /\ v.events = Append(events, [kind |-> "OrderCancelled",
                                               order |-> id, who |-> c.caller])
                 /\ \A f \in OkFills(id) : FillOn(v, f).err # "Ok"

\* an Open order that two different takers could fill and its maker cancel
C5_Witness ==
    \E id \in ValidIds :
        /\ engine = "bridge"
        /\ \E f, g \in OkFills(id) : f.taker # g.taker
        /\ OkCancels(id) # {}

\* the last event about order id is a terminal one
Terminated(id) ==
    \E k \in 1..Len(events) :
        /\ events[k].order = id
        /\ events[k].kind \in {"OrderFilled", "OrderCancelled"}
        /\ \A j \in (k + 1)..Len(events) : events[j].order # id

\* every fill and cancel a caller can aim at order id, with the optional
\* accounts of either direction
FillAttempts(id) ==
    IF engine = "bridge" THEN
        UNION {{[id |-> id, taker |-> taker, makerSlot |-> m, acc |-> acc] :
                   m \in Users,
                   acc \in BridgeFillAccsDir(id, taker, 0)
                              \cup BridgeFillAccsDir(id, taker, 1)} :
               taker \in Users}
    ELSE
        UNION {{[id |-> id, taker |-> taker, makerSlot |-> m, acc |-> acc] :
                   m \in Users,
                   acc \in [escrow_token_account :
                                EscrowChoices(id) \cup {Ata(id[1])},
                            taker_token_account : OwnChoices(taker)]} :
               taker \in Users}
CancelAttempts(id) ==
    UNION {{[id |-> id, caller |-> caller, acc |-> acc] :
               acc \in [escrow_token_account : {None} \cup EscrowChoices(id),
                        maker_token_account : {None} \cup OwnChoices(caller)]} :
           caller \in Users}

\* C6: once an order has been filled or cancelled its record is destroyed,
\* and every fill or cancel aimed at it afterwards fails and changes nothing.
C6_TerminalAbsorbing ==
    \A id \in ValidIds :
        Terminated(id) =>
            /\ ~orders[id].live
            /\ \A in \in FillAttempts(id) :
                 /\ FillOn(World, in).err # "Ok"
                 /\ Untouched(Retained(FillOn(World, in)), id)
            /\ \A in \in CancelAttempts(id) :
                 /\ CancelOn(World, in).err # "Ok"
                 /\ Untouched(Retained(CancelOn(World, in)), id)

\* an order was filled in an earlier slot, and another was cancelled
C6_Witness ==
    /\ last.op = "tick"
    /\ \E k \in 1..Len(events) :
         events[k].kind = "OrderFilled" /\ Terminated(events[k].order)
    /\ \E k \in 1..Len(events) :
         events[k].kind = "OrderCancelled" /\ Terminated(events[k].order)

\* the account constraints of fill_order hold for input in
FillAccountsPass(in) ==
    IF engine = "bridge"
    THEN BridgeFillAccounts(World, in.id, in.makerSlot, in.acc).err = "Ok"
    ELSE SolanaFillAccounts(World, in.id, in.makerSlot, in.acc).err = "Ok"

\* C7 as stated: a fill of an Open order after its expiration fails with
\* OrderExpired and changes nothing whatever the taker and accounts are, and a
\* fill at or before the expiration is not rejected for expiry.
C7_ExpiredAlwaysOrderExpired ==
    \A in \in FillInputs :
        orders[in.id].live =>
            LET r == FillOn(World, in)
            IN  IF slot > orders[in.id].expiration_slot
                THEN r.err = "OrderExpired" /\ Untouched(Retained(r), in.id)
                ELSE r.err # "OrderExpired"

\* C7: a fill of an Open order passes the expiry guard exactly when
\* slot <= expiration_slot.  After the expiration every fill fails and changes
\* nothing, whatever the taker and accounts are; the error is OrderExpired
\* whenever the accounts pass the instruction's account constraints, which
\* are checked first.  At or before the expiration no fill is rejected for
\* expiry.
C7_ExpiryGuard ==
    \A in \in FillInputs :
        orders[in.id].live =>
            LET r == FillOn(World, in)
            IN  IF slot > orders[in.id].expiration_slot
                THEN /\ r.err # "Ok"
                     /\ Untouched(Retained(r), in.id)
                     /\ FillAccountsPass(in) => r.err = "OrderExpired"
                ELSE r.err # "OrderExpired"

\* an order has just been filled in the very slot of its expiration, while a
\* fill of another, expired order is refused with OrderExpired
C7_Witness ==
    /\ last.op = "fill"
    /\ slot = last.order.expiration_slot
    /\ \E in \in FillInputs :
         /\ orders[in.id].live
         /\ slot > orders[in.id].expiration_slot
         /\ FillOn(World, in).err = "OrderExpired"

\* the cancels of order id by its maker: with the order's escrow account and
\* the maker's sGOR account where the refund is in tokens, with any existing
\* accounts where it is native
MakerCancels(id) ==
    {in \in CancelInputs :
        /\ in.id = id
        /\ in.caller = orders[id].maker
        /\ IF engine = "bridge" /\ orders[id].direction = 1
           THEN /\ Loadable(World, in.acc.escrow_token_account)
                /\ Loadable(World, in.acc.maker_token_account)
           ELSE /\ in.acc.escrow_token_account = EscrowPda(id)
                /\ in.acc.maker_token_account = Ata(in.caller)}

\* C8: the maker's cancel of an Open order succeeds at every slot, before and
\* after the expiration: the full amount returns from the vault to the maker,
\* the order's deposit with it, the order is destroyed and OrderCancelled is
\* emitted.
C8_MakerCancelSucceeds ==
    \A id \in ValidIds :
        orders[id].live =>
            /\ MakerCancels(id) # {}
            /\ \A in \in MakerCancels(id) :
                 LET r == CancelOn(World, in)
                     m == in.caller
                     A == orders[id].amount
                 IN  /\ r.err = "Ok"
                     /\ ~r.w.orders[id].live
                     /\ r.w.events = Append(events, [kind |-> "OrderCancelled",
                                                     order |-> id, who |-> m])
                     /\ VaultReleased(r.w, id, A)
                     /\ IF engine = "bridge" /\ orders[id].direction = 1
                        THEN /\ r.w.lamports[User(m)] =
                                    lamports[User(m)] + A + OrderRent
                             /\ r.w.tokens = tokens
                        ELSE /\ r.w.tokens[Ata(m)] = tokens[Ata(m)] + A
                             /\ r.w.lamports[User(m)] =
                                    lamports[User(m)] + OrderRent

\* the maker has just cancelled an order whose expiration had passed
C8_Witness ==
    /\ last.op = "cancel"
    /\ last.caller = last.order.maker
    /\ slot > last.order.expiration_slot
    /\ ~orders[last.id].live

CreateInputs ==
    IF engine = "bridge" THEN BridgeCreateInputs ELSE SolanaCreateInputs
CreateOn(in) ==
    IF engine = "bridge" THEN BridgeCreateResult(in) ELSE SolanaCreateResult(in)
CreateInputsOf(id) ==
    IF engine = "bridge" THEN BridgeCreateInputsOf(id[1], id[2])
    ELSE SolanaCreateInputsOf(id[1], id[2])

\* the number of events of the given kinds about order id
CountEvents(id, kinds) ==
    Cardinality({k \in 1..Len(events) :
                    events[k].order = id /\ events[k].kind \in kinds})
\* orders created under the seeds id and not yet terminated, by the log
LiveCount(id) ==
    CountEvents(id, {"OrderCreated"})
        - CountEvents(id, {"OrderFilled", "OrderCancelled"})

\* C11: at most one live order exists per (maker, amount): the orders
\* created and not yet terminated under one pair number 0 or 1, and a
\* create_order for a pair whose order is Open fails and changes nothing,
\* whatever direction, expiration and accounts it carries.
C11_OneLiveOrderPerPair ==
    /\ \A id \in OrderIds :
         LiveCount(id) = IF orders[id].live THEN 1 ELSE 0
    /\ \A id \in OrderIds :
         orders[id].live =>
            \A in \in CreateInputsOf(id) :
                LET r == CreateOn(in)
                IN  r.err # "Ok" /\ Untouched(Retained(r), id)

\* the maker of an Open order, still holding the funds for a second one,
\* asks for the same (maker, amount) with another expiration and is refused
C11_Witness ==
    \E id \in OrderIds :
      orders[id].live /\
        \E in \in CreateInputsOf(id) :
            /\ orders[id].live
            /\ in.expiration_slot # orders[id].expiration_slot
            /\ in.expiration_slot > slot
            /\ in.expiration_slot <= slot + MAX_EXPIRY_SLOTS
            /\ tokens[Ata(in.maker)] >= in.amount
            /\ lamports[User(in.maker)] >= in.amount + OrderRent + TokenRent
            /\ CreateOn(in).err = "AccountInUse"

\* the account validation of create_order passes for input in
CreateAccountsPass(in) ==
    IF engine = "bridge"
    THEN BridgeCreateAccounts(World, in.maker, in.amount, in.acc).err = "Ok"
    ELSE SolanaCreateAccounts(World, in.maker, in.amount, in.acc).err = "Ok"

\* the pairs whose amount is below the minimum
SmallIds == {id \in OrderIds : id[2] < MIN_ORDER_AMOUNT}

\* C12 as stated: every create_order with amount < MIN_ORDER_AMOUNT is
\* rejected with InvalidAmount and moves nothing.
C12_SmallAmountIsInvalidAmount ==
    \A id \in SmallIds :
        \A in \in CreateInputsOf(id) :
            LET r == CreateOn(in)
            IN  r.err = "InvalidAmount" /\ Untouched(Retained(r), id)

\* C12: every create_order with amount < MIN_ORDER_AMOUNT is rejected and
\* leaves no balance movement, no order record and no event; the error is
\* InvalidAmount whenever the accounts pass the instruction's account
\* validation, which runs first.  Every order that exists, and every order
\* the log mentions, has amount >= MIN_ORDER_AMOUNT.
C12_SmallAmountRejected ==
    /\ \A id \in SmallIds :
         \A in \in CreateInputsOf(id) :
            LET r == CreateOn(in)
            IN  /\ r.err # "Ok"
                /\ Untouched(Retained(r), id)
                /\ CreateAccountsPass(in) => r.err = "InvalidAmount"
    /\ \A id \in OrderIds :
         orders[id].live =>
            orders[id].amount = id[2] /\ orders[id].amount >= MIN_ORDER_AMOUNT
    /\ \A k \in 1..Len(events) : events[k].order[2] >= MIN_ORDER_AMOUNT

\* a maker with an Open order of the minimum amount asks for one a unit
\* below the minimum, holding the funds and passing valid accounts and a
\* valid expiration, and is refused with InvalidAmount
C12_Witness ==
    \E id \in SmallIds :
        \E in \in CreateInputsOf(id) :
            /\ id[2] = MIN_ORDER_AMOUNT - 1
            /\ orders[<<id[1], MIN_ORDER_AMOUNT>>].live
            /\ CreateAccountsPass(in)
            /\ NotInPast(in.expiration_slot, slot)
            /\ NotTooFar(in.expiration_slot, slot)
            /\ tokens[Ata(in.maker)] >= in.amount
            /\ in.acc.maker_token_account = Ata(in.maker)
            /\ CreateOn(in).err = "InvalidAmount"

\* expiration e lies in the window of a create executed at slot now
InWindow(e, now) == now < e /\ e <= now + MAX_EXPIRY_SLOTS

\* C13: a create_order executed at slot `slot` is rejected without any
\* change when expiration_slot <= slot or expiration_slot > slot +
\* MAX_EXPIRY_SLOTS, and is not rejected for its expiration when slot <
\* expiration_slot <= slot + MAX_EXPIRY_SLOTS; the order a create stores
\* has an expiration in the window of its creation slot.
C13_ExpirationWindow ==
    /\ CanCreate =>
         \A in \in CreateInputs :
            LET r == CreateOn(in)
                id == <<in.maker, in.amount>>
            IN  /\ ~InWindow(in.expiration_slot, slot) =>
                       r.err # "Ok" /\ Untouched(Retained(r), id)
                /\ InWindow(in.expiration_slot, slot) =>
                       r.err \notin {"ExpirationInPast", "ExpirationTooFar"}
                /\ r.err = "Ok" =>
                       /\ r.w.orders[id].expiration_slot = in.expiration_slot
                       /\ InWindow(r.w.orders[id].expiration_slot, slot)
    /\ \A id \in OrderIds :
         orders[id].live =>
            /\ orders[id].expiration_slot >= 1
            /\ orders[id].expiration_slot <= slot + MAX_EXPIRY_SLOTS

\* an order was just created with the last admissible expiration, while the
\* same create with the current slot as expiration, or one slot past the
\* window, is refused for its expiration
C13_Witness ==
    /\ last.op = "create"
    /\ slot > 0
    /\ last.order.expiration_slot = slot + MAX_EXPIRY_SLOTS
    /\ orders[last.id] = last.order
    /\ CanCreate
    /\ \E in \in CreateInputs :
         in.expiration_slot = slot /\ CreateOn(in).err = "ExpirationInPast"
    /\ \E in \in CreateInputs :
         /\ in.expiration_slot = slot + MAX_EXPIRY_SLOTS + 1
         /\ CreateOn(in).err = "ExpirationTooFar"

\* the last event about order id is its fill
Filled(id) ==
    \E k \in 1..Len(events) :
        /\ events[k].order = id
        /\ events[k].kind = "OrderFilled"
        /\ \A j \in (k + 1)..Len(events) : events[j].order # id

\* C14: a cancel_order by the maker after a successful fill_order of the
\* same order fails with OrderAlreadyFilled and changes no balance.
C14_CancelAfterFillAlreadyFilled ==
    \A id \in ValidIds :
        Filled(id) =>
            \A in \in CancelAttempts(id) :
                in.caller = id[1] =>
                    /\ CancelOn(World, in).err = "OrderAlreadyFilled"
                    /\ Untouched(Retained(CancelOn(World, in)), id)

\* the marking of fill_order on accounts w, whichever program is deployed
MarkFilledOn(w, id) ==
    IF engine = "bridge" THEN BridgeMarkFilled(w, id)
    ELSE SolanaMarkFilled(w, id)

\* the records of all orders but id are the same in v as now
OthersKept(v, id) == \A j \in OrderIds : j # id => v.orders[j] = orders[j]

\* C15: the filled flag of an order is false from its creation for as long
\* as the order is Open, whatever fails or happens to other orders; the one
\* write that makes it true is that of a successful fill_order, on the order
\* being filled only, and that fill destroys the record in the same
\* instruction, so the flag is set at most once and no record ever shows it
\* going back to false; cancel_order destroys the record without setting it.
C15_FilledFlagMonotone ==
    /\ \A id \in OrderIds :
         ~orders[id].live => orders[id] = NoOrder
    /\ \A id \in ValidIds :
         orders[id].live =>
            /\ ~orders[id].is_filled
            /\ MarkFilledOn(World, id).orders[id] =
                   [orders[id] EXCEPT !.is_filled = TRUE]
            /\ OthersKept(MarkFilledOn(World, id), id)
            /\ \A f \in OkFills(id) :
                 /\ FillOn(World, f).w.orders[id] = NoOrder
                 /\ OthersKept(FillOn(World, f).w, id)
            /\ \A c \in OkCancels(id) :
                 /\ CancelOn(World, c).w.orders[id] = NoOrder
                 /\ OthersKept(CancelOn(World, c).w, id)
    /\ \A in \in FillInputs :
         FillOn(World, in).err # "Ok" =>
            Retained(FillOn(World, in)).orders = orders
    /\ \A in \in CancelInputs :
         CancelOn(World, in).err # "Ok" =>
            Retained(CancelOn(World, in)).orders = orders

\* one order has just been filled and its record is gone, while another
\* order, created before, is still Open with its flag false
C15_Witness ==
    /\ last.op = "fill"
    /\ orders[last.id] = NoOrder
    /\ \E id \in ValidIds :
         /\ id # last.id
         /\ orders[id].live
         /\ ~orders[id].is_filled

\* the storage deposits held for order id: the rent of its order account
\* (what that account holds beyond a native escrow) and of its vault account
Deposits(id) ==
    lamports[OrderPda(id)]
        - Gain(engine = "bridge" /\ orders[id].direction = 1, orders[id].amount)
        + lamports[EscrowPda(id)]

\* the native amount user u receives (pays, if negative) in the legs of the
\* instruction that terminates order o, for taker t
NativeLegs(op, o, t, u) ==
    IF engine # "bridge" THEN 0
    ELSE IF op = "fill" /\ o.direction = 0
        THEN Gain(u = o.maker, o.amount) - Gain(u = t, o.amount)
    ELSE IF op = "fill" THEN Gain(u = t, o.amount)
    ELSE IF o.direction = 1 THEN Gain(u = o.maker, o.amount)
    ELSE 0

\* C16: the fill_order or cancel_order that terminates an order destroys the
\* order record in that operation and refunds every storage deposit paid at
\* create - for the order record and for its vault account - to the maker:
\* neither account keeps a deposit, the maker receives all of it, and nobody
\* else, the taker included, receives anything beyond the legs of the trade.
C16_DepositsRefundedToMaker ==
    [][Took("fill") \/ Took("cancel") =>
        LET id == last'.id
            o == orders[id]
        IN  /\ ~orders'[id].live
            /\ lamports'[OrderPda(id)] = 0
            /\ lamports'[EscrowPda(id)] = 0
            /\ \A u \in Users :
                 lamports'[User(u)] = lamports[User(u)]
                     + Gain(u = o.maker, Deposits(id))
                     + NativeLegs(last'.op, o, last'.caller, u)]_vars

\* the events about order id, in log order
EventsOf(id) == SelectSeq(events, LAMBDA e : e.order = id)

\* a log restricted to one pair: every order's OrderCreated is followed by
\* at most one terminal event before the pair is created again, and a
\* terminal event always directly follows the OrderCreated of its order
OneOrderShape(log) ==
    \A k \in 1..Len(log) :
        IF log[k].kind = "OrderCreated"
        THEN k > 1 => log[k - 1].kind \in {"OrderFilled", "OrderCancelled"}
        ELSE /\ log[k].kind \in {"OrderFilled", "OrderCancelled"}
             /\ k > 1
             /\ log[k - 1].kind = "OrderCreated"

\* the event a successful op of caller who on order id appends
EventFor(op, id, who) ==
    [kind |-> IF op = "create" THEN "OrderCreated"
              ELSE IF op = "fill" THEN "OrderFilled" ELSE "OrderCancelled",
     order |-> id, who |-> who]

\* C17: a successful create, fill or cancel appends exactly one event, of
\* its own kind; a failed one appends none; and the events of one order are
\* its OrderCreated followed by at most one terminal event, never both and
\* never a terminal event first.
C17_EventLogOrder ==
    /\ \A id \in OrderIds : OneOrderShape(EventsOf(id))
    /\ CanCreate =>
         \A in \in CreateInputs :
            LET r == CreateOn(in)
                id == <<in.maker, in.amount>>
            IN  Retained(r).events =
                    IF r.err = "Ok"
                    THEN Append(events, EventFor("create", id, in.maker))
                    ELSE events
    /\ \A in \in FillInputs :
         LET r == FillOn(World, in)
         IN  Retained(r).events =
                 IF r.err = "Ok"
                 THEN Append(events, EventFor("fill", in.id, in.taker))
                 ELSE events
    /\ \A in \in CancelInputs :
         LET r == CancelOn(World, in)
         IN  Retained(r).events =
                 IF r.err = "Ok"
                 THEN Append(events, EventFor("cancel", in.id, in.caller))
                 ELSE events

\* one pair saw an order created and filled, then an order created and
\* cancelled
C17_Witness ==
    \E id \in ValidIds :
        /\ Len(EventsOf(id)) = 4
        /\ EventsOf(id)[2].kind = "OrderFilled"
        /\ EventsOf(id)[4].kind = "OrderCancelled"

\* C18 (bidirectional engine): the vault of an Open order holds the order
\* amount in the kind its stored direction designates - sGOR in the escrow
\* token account for direction 0, native in the order account for direction
\* 1 - and no native funds beyond the account deposit for direction 0; a
\* fill or cancel releases that kind, and a fill takes the other kind from
\* the taker.
C18_VaultKindMatchesDirection ==
    \A id \in ValidIds :
        orders[id].live =>
            LET o == orders[id]
                A == o.amount
            IN  /\ o.direction \in {0, 1}
                /\ IF o.direction = 0
                   THEN /\ tokens[EscrowPda(id)] >= A
                        /\ escrows[id] = SGOR_MINT
                        /\ lamports[OrderPda(id)] = OrderRent
                   ELSE lamports[OrderPda(id)] = OrderRent + A
                /\ \A f \in OkFills(id) :
                     LET v == FillOn(World, f).w
                         t == f.taker
                     IN  IF o.direction = 0
                         THEN /\ v.tokens[EscrowPda(id)] = tokens[EscrowPda(id)] - A
                              /\ v.tokens[f.acc.taker_receive_token_account] =
                                     tokens[f.acc.taker_receive_token_account] + A
                              /\ lamports[User(t)] >= A
                              /\ v.lamports[User(t)] = lamports[User(t)] - A
                                     + Gain(t = o.maker, A + OrderRent)
                         ELSE /\ v.lamports[OrderPda(id)] = 0
                              /\ v.lamports[User(t)] = lamports[User(t)] + A
                                     + Gain(t = o.maker, OrderRent)
                              /\ MintOf(World, f.acc.taker_token_account) = SGOR_MINT
                              /\ tokens[f.acc.taker_token_account] >= A
                              /\ v.tokens[f.acc.taker_token_account] =
                                   tokens[f.acc.taker_token_account]
                                     - Gain(f.acc.taker_token_account #
                                            f.acc.maker_receive_token_account, A)
                /\ \A c \in OkCancels(id) :
                     LET v == CancelOn(World, c).w
                     IN  IF o.direction = 0
                         THEN /\ v.tokens[EscrowPda(id)] = tokens[EscrowPda(id)] - A
                              /\ v.tokens[Ata(o.maker)] = tokens[Ata(o.maker)] + A
                              /\ v.lamports[User(o.maker)] =
                                     lamports[User(o.maker)] + OrderRent
                         ELSE /\ v.tokens = tokens
                              /\ v.lamports[OrderPda(id)] = 0
                              /\ v.lamports[User(o.maker)] =
                                     lamports[User(o.maker)] + A + OrderRent

\* an Open sGOR-escrow order and an Open native-escrow order, each with a
\* taker able to fill it
C18_Witness ==
    /\ engine = "bridge"
    /\ \E id \in ValidIds :
         orders[id].live /\ orders[id].direction = 0 /\ OkFills(id) # {}
    /\ \E id \in ValidIds :
         orders[id].live /\ orders[id].direction = 1 /\ OkFills(id) # {}

\* the record, the vault balances and the account deposits of every order
\* other than id are the same in v as now
OtherVaultsKept(v, id) ==
    \A y \in OrderIds :
        y # id =>
            /\ v.orders[y] = orders[y]
            /\ v.tokens[EscrowPda(y)] = tokens[EscrowPda(y)]
            /\ v.lamports[OrderPda(y)] = lamports[OrderPda(y)]
            /\ v.lamports[EscrowPda(y)] = lamports[EscrowPda(y)]

\* the same, but that a vault named as the account `paid`, which is to
\* receive tokens from the caller, holds the tokens paid on top
OtherVaultsNotDebited(v, id, paid) ==
    \A y \in OrderIds :
        y # id =>
            /\ v.orders[y] = orders[y]
            /\ v.tokens[EscrowPda(y)] >= tokens[EscrowPda(y)]
            /\ paid # EscrowPda(y)
                  => v.tokens[EscrowPda(y)] = tokens[EscrowPda(y)]
            /\ v.lamports[OrderPda(y)] = lamports[OrderPda(y)]
            /\ v.lamports[EscrowPda(y)] = lamports[EscrowPda(y)]

\* the account a fill names to receive the maker's tokens
PaidAccount(in) ==
    IF engine = "bridge" THEN in.acc.maker_receive_token_account ELSE None

\* the instruction input names the vault account of another order
NamesOtherVault(in) ==
    /\ in.acc.escrow_token_account # None
    /\ in.acc.escrow_token_account # EscrowPda(in.id)

\* the refund or release of order id is in tokens
TokenVault(id) == ~(engine = "bridge" /\ orders[id].direction = 1)

OtherRecordsKept(v, user) == \A u \in Users \ {user} : v.mining[u] = mining[u]

\* the lamports of every account but the vault and the treasury are kept
OtherGorKept(v) ==
    \A a \in GorAccts \ {Vault, Treasury} : v.lamports[a] = gor[a]

\* the effect of a charge of cost on the record of user and on the funds
Charged(v, user, cost) ==
    /\ v.mining[user] = [mining[user] EXCEPT
                            !.balance = mining[user].balance - cost,
                            !.total_spent = mining[user].total_spent + cost]
    /\ v.lamports[Vault] = gor[Vault] - cost
    /\ v.lamports[Treasury] = gor[Treasury] + cost

\* C20: charge_for_batch by an owner for a cost above the balance of the
\* owner's record fails (with InsufficientBalance when the accounts passed
\* are the owner's record, the vault and the treasury, with the error of the
\* account validation otherwise) and changes nothing; for a cost within the
\* balance it takes exactly cost off that balance, adds exactly cost to that
\* record's total_spent, moves exactly cost from the shared vault to the
\* treasury, emits one BatchChargedEvent, and changes no other user's record
\* and no other account's funds.
C20_ChargeForBatch ==
    \A in \in ChargeForBatchInputs :
        LET r == ChargeForBatchResult(in)
            m == mining[in.user]
            pass == ChargeForBatchAccounts(Ledger, in) = "Ok"
        IN  /\ ~pass => r.err = ChargeForBatchAccounts(Ledger, in)
            /\ r.err # "Ok" => Booked(r) = Ledger
            /\ m.live /\ m.balance < in.cost =>
                 /\ r.err # "Ok"
                 /\ pass => r.err = "InsufficientBalance"
            /\ pass /\ m.balance >= in.cost =>
                 /\ r.err = "Ok"
                 /\ Charged(r.w, in.user, in.cost)
                 /\ OtherRecordsKept(r.w, in.user)
                 /\ OtherGorKept(r.w)
                 /\ r.w.events = Append(events,
                        [kind |-> "BatchChargedEvent", user |-> in.user,
                         cost |-> in.cost,
                         remaining_balance |-> m.balance - in.cost])

\* a charge has just been paid to the treasury, and an owner's balance is
\* below a cost that the funds of the vault would cover
C20_Witness ==
    /\ last.op = "charge_for_batch"
    /\ last.arg > 0
    /\ gor[Treasury] > 0
    /\ \E u \in Users :
          /\ mining[u].live
          /\ mining[u].balance > 0
          /\ mining[u].balance < MaxGor
          /\ gor[Vault] >= MaxGor

\* a withdraw of user directly after the instruction that left the ledger v
WithdrawAfter(v, in) ==
    Instruction(WithdrawAccounts(v, in), withdraw(v, in), v)

\* C21: a successful withdraw pays the owner exactly the full recorded
\* balance out of the shared vault and sets that balance to 0; total_spent,
\* matches_found, every other field of the record, every other user's
\* record and every other account's funds are unchanged; and a second
\* withdraw of the same owner right after it fails and moves no funds.
C21_WithdrawPaysFullBalance ==
    \A in \in WithdrawInputs :
        LET r == WithdrawResult(in)
            m == mining[in.user]
        IN  r.err = "Ok" =>
              /\ m.balance > 0
              /\ r.w.lamports[User(in.user)] = gor[User(in.user)] + m.balance
              /\ r.w.lamports[Vault] = gor[Vault] - m.balance
              /\ \A a \in GorAccts \ {Vault, User(in.user)} :
                    r.w.lamports[a] = gor[a]
              /\ r.w.mining[in.user] = [m EXCEPT !.balance = 0]
              /\ OtherRecordsKept(r.w, in.user)
              /\ r.w.events = Append(events,
                    [kind |-> "WithdrawEvent", user |-> in.user,
                     amount |-> m.balance])
              /\ \A again \in WithdrawInputs :
                    again.user = in.user =>
                       LET s == WithdrawAfter(r.w, again) IN
                       /\ s.err # "Ok"
                       /\ again.mining_account = in.user /\ again.vault = Vault
                             => s.err = "NoBalance"

\* a withdraw has just paid an owner who had spent before, while another
\* user's balance stays in the vault
C21_Witness ==
    /\ last.op = "withdraw"
    /\ last.arg > 0
    /\ mining[last.caller].balance = 0
    /\ mining[last.caller].total_spent > 0
    /\ \E u \in Users \ {last.caller} : mining[u].balance > 0 /\ gor[Vault] > 0

CreateOnAccounts(w, in) ==
    IF engine = "bridge"
    THEN BridgeCreateOrder([w EXCEPT !.xfers = 0], slot, in.maker, in.amount,
                           in.direction, in.expiration_slot, in.acc)
    ELSE SolanaCreateOrder([w EXCEPT !.xfers = 0], slot, in.maker, in.amount,
                           in.expiration_slot, in.recipient, in.acc)

\* the accounts left by instruction o run on accounts w: a failed
\* instruction leaves w
RunOn(w, o) ==
    LET r == IF o.op = "create" THEN CreateOnAccounts(w, o.in)
             ELSE IF o.op = "fill" THEN FillOn(w, o.in)
             ELSE CancelOn(w, o.in)
    IN  [err |-> r.err, w |-> IF r.err = "Ok" THEN r.w ELSE w]

SameAccounts(v, w) ==
    /\ v.lamports = w.lamports /\ v.tokens = w.tokens
    /\ v.orders = w.orders /\ v.escrows = w.escrows

\* the instructions of the deployed engine that succeed on the current
\* accounts, each with the order identity it targets, and the accounts each
\* of them leaves
OkOps ==
    {[op |-> "create", id |-> <<in.maker, in.amount>>, in |-> in] :
        in \in UNION {{x \in CreateInputsOf(id) : CreateOn(x).err = "Ok"} :
                      id \in OrderIds}}
      \cup {[op |-> "fill", id |-> in.id, in |-> in] :
              in \in {x \in FillInputs : FillOn(World, x).err = "Ok"}}
      \cup {[op |-> "cancel", id |-> in.id, in |-> in] :
              in \in {x \in CancelInputs : CancelOn(World, x).err = "Ok"}}
Left(ops) == [o \in ops |-> RunOn(World, o).w]

\* the record, the vault and the deposits of order id are in v as they are
\* now, but that the vault holds more when it is the account `paid`
OrderKept(v, id, paid) ==
    /\ v.orders[id] = orders[id]
    /\ v.escrows[id] = escrows[id]
    /\ v.tokens[EscrowPda(id)] >= tokens[EscrowPda(id)]
    /\ paid # EscrowPda(id) => v.tokens[EscrowPda(id)] = tokens[EscrowPda(id)]
    /\ v.lamports[OrderPda(id)] = lamports[OrderPda(id)]
    /\ v.lamports[EscrowPda(id)] = lamports[EscrowPda(id)]

FundErrors == {"InsufficientFunds", "InsufficientLamports"}

\* an order of the order identities, to take each pair of different
\* identities once
UserNo(u) == IF u = "alice" THEN 1 ELSE IF u = "bob" THEN 2 ELSE 3
Before(i, j) == i[2] < j[2] \/ (i[2] = j[2] /\ UserNo(i[1]) < UserNo(j[1]))

ExpiredOpen(id) ==
    /\ orders[id].live
    /\ ~orders[id].is_filled
    /\ slot > orders[id].expiration_slot

\* the record of order id and the balance of its vault (the escrow token
\* account, and the order account holding the native escrow) do not change
\* in the step
RecordAndVaultKept(id) ==
    /\ orders'[id] = orders[id]
    /\ tokens'[EscrowPda(id)] = tokens[EscrowPda(id)]
    /\ lamports'[OrderPda(id)] = lamports[OrderPda(id)]

\* C23: advancing the clock changes no order, vault or balance, and while an
\* Open order is past its expiration every step leaves its record and its
\* vault balance unchanged, unless the step is a successful cancel_order of
\* that order by its maker.
C23_NoAutomaticExpiry ==
    [][/\ slot' # slot =>
             UNCHANGED <<lamports, tokens, orders, escrows, events>>
       /\ \A id \in ValidIds :
             ExpiredOpen(id) =>
                \/ RecordAndVaultKept(id)
                \/ /\ Took("cancel")
                   /\ last'.id = id
                   /\ last'.caller = orders[id].maker]_vars

\* the errors for a required account that is absent or of the wrong kind
ResourceErrors ==
    {"MissingEscrowTokenAccount", "MissingMakerTokenAccount",
     "MissingTakerTokenAccount", "MissingTakerReceiveTokenAccount",
     "MissingMakerReceiveTokenAccount", "InvalidMint"}

\* C24: no execution of create_order, fill_order or cancel_order that ends
\* in a resource error has executed a transfer before it.
C24_ResourceErrorsBeforeTransfer ==
    /\ \A id \in OrderIds : \A in \in CreateInputsOf(id) :
          LET r == CreateOn(in)
          IN  r.err \in ResourceErrors => r.w.xfers = 0
    /\ \A in \in FillInputs :
          LET r == FillOn(World, in)
          IN  r.err \in ResourceErrors => r.w.xfers = 0
    /\ \A in \in CancelInputs :
          LET r == CancelOn(World, in)
          IN  r.err \in ResourceErrors => r.w.xfers = 0

RECURSIVE SumOver(_, _)
\* the sum of f[a] over the accounts a of S
SumOver(f, S) ==
    IF S = {} THEN 0
    ELSE LET a == CHOOSE x \in S : TRUE
         IN  f[a] + SumOver(f, S \ {a})

\* the token accounts of mint m: users' accounts and escrow accounts
AccountsOfMint(m) ==
    {a \in TokenAccts : TokenExists(World, a) /\ MintOf(World, a) = m}

\* C25: the native funds held by all users, order accounts and escrow
\* accounts together, and the tokens of each mint held by all users' token
\* accounts and all escrow token accounts together, are in every reachable
\* state what they were initially; an escrow account that does not exist
\* holds nothing.
C25_AssetConservation ==
    /\ SumOver(lamports, NativeAccts) = SumOver(InitLamports, NativeAccts)
    /\ SumOver(tokens, AccountsOfMint(SGOR_MINT))
          = SumOver(InitTokens, {Ata(u) : u \in Users})
    /\ SumOver(tokens, AccountsOfMint(OTHER_MINT))
          = SumOver(InitTokens, {Alt(u) : u \in Users})
    /\ \A id \in OrderIds : escrows[id] = "none" => tokens[EscrowPda(id)] = 0

\* a fill has just moved both kinds between maker, taker and vault while
\* another order is Open with its escrow in a vault
C25_Witness ==
    /\ last.op = "fill"
    /\ last.caller # last.order.maker
    /\ \E id \in ValidIds :
          /\ orders[id].live
          /\ tokens[EscrowPda(id)] + lamports[OrderPda(id)]
                >= orders[id].amount + OrderRent

\* the escrow of the order record o is native funds held by its order account
NativeEscrow(o) == engine = "bridge" /\ o.direction = 1

\* C26: the vault of every Open order holds exactly the order amount of the
\* escrowed kind (tokens in the escrow token account, or native funds in the
\* order account on top of its deposit); an order account that holds no Open
\* order holds no native funds; and the token vault of the order that the
\* last instruction filled or cancelled holds no tokens.
C26_VaultBacking ==
    /\ \A id \in OrderIds :
          IF orders[id].live
          THEN /\ ~orders[id].is_filled
               /\ IF NativeEscrow(orders[id])
                  THEN lamports[OrderPda(id)] = OrderRent + orders[id].amount
                  ELSE /\ tokens[EscrowPda(id)] = orders[id].amount
                       /\ lamports[OrderPda(id)] = OrderRent
          ELSE lamports[OrderPda(id)] = 0
    /\ last.op \in {"fill", "cancel"} /\ ~NativeEscrow(last.order)
          => tokens[EscrowPda(last.id)] = 0

\* a create_order input that is valid in everything but the state of the
\* accounts under its seeds: amount and expiration in range, a direction the
\* program knows, the maker's own sGOR account and the sGOR mint where tokens
\* are escrowed, and balances that cover the escrow and both deposits
OtherwiseValidCreate(in) ==
    LET tokenEscrow == engine # "bridge" \/ in.direction = 0
    IN  /\ in.amount \in ValidAmounts
        /\ in.expiration_slot > slot
        /\ in.expiration_slot <= slot + MAX_EXPIRY_SLOTS
        /\ engine = "bridge" => in.direction \in {0, 1}
        /\ lamports[User(in.maker)] >=
              OrderRent + TokenRent + (IF tokenEscrow THEN 0 ELSE in.amount)
        /\ in.acc.escrow_token_account # None
              => in.acc.sgor_mint = SGOR_MINT
        /\ tokenEscrow =>
              /\ in.acc.escrow_token_account = EscrowPda(<<in.maker, in.amount>>)
              /\ in.acc.maker_token_account # None
              /\ TokenExists(World, in.acc.maker_token_account)
              /\ MintOf(World, in.acc.maker_token_account) = SGOR_MINT
              /\ tokens[in.acc.maker_token_account] >= in.amount

\* C27: after the order of (maker, amount) was filled or cancelled, every
\* otherwise valid create_order of the same maker and amount succeeds and
\* leaves a live order under that pair that is not filled.
C27_IdentityReuse ==
    \A id \in ValidIds :
        Terminated(id) =>
            \A in \in CreateInputsOf(id) :
                OtherwiseValidCreate(in) =>
                    LET r == CreateOn(in)
                    IN  /\ r.err = "Ok"
                        /\ r.w.orders[id].live
                        /\ ~r.w.orders[id].is_filled

\* the recorded balance of every user in the records m
Balances(m) == [u \in Users |-> m[u].balance]

\* the vault of the ledger v holds exactly the sum of the recorded balances
VaultCovers(v) == v.lamports[Vault] = SumOver(Balances(v.mining), Users)

\* C28: the funds of the shared vault equal the sum of all users' recorded
\* balances; a withdraw by any owner with a non-empty balance and the
\* ledger's own accounts succeeds; and a successful withdraw or
\* charge_for_batch takes no more than the caller's own balance out of the
\* vault, leaves every other user's record as it was and leaves the vault
\* covering the remaining balances.
C28_LedgerSolvency ==
    /\ VaultCovers(Ledger)
    /\ \A in \in WithdrawInputs :
          LET r == WithdrawResult(in)
          IN  /\ WithdrawAccounts(Ledger, in) = "Ok"
                    /\ mining[in.user].balance > 0 => r.err = "Ok"
              /\ r.err = "Ok" =>
                    /\ gor[Vault] - r.w.lamports[Vault]
                          = mining[in.user].balance
                    /\ OtherRecordsKept(r.w, in.user)
                    /\ VaultCovers(r.w)
    /\ \A in \in ChargeForBatchInputs :
          LET r == ChargeForBatchResult(in)
          IN  r.err = "Ok" =>
                    /\ gor[Vault] - r.w.lamports[Vault] = in.cost
                    /\ in.cost <= mining[in.user].balance
                    /\ OtherRecordsKept(r.w, in.user)
                    /\ VaultCovers(r.w)

\* one owner has just withdrawn while the vault still holds the balance of
\* another, who can withdraw it
C28_Witness ==
    /\ last.op = "withdraw"
    /\ gor[Vault] > 0
    /\ \E u \in Users \ {last.caller} :
          /\ mining[u].balance > 0
          /\ \E in \in WithdrawInputs :
                in.user = u /\ WithdrawResult(in).err = "Ok"

RECURSIVE AmountsLogged(_, _, _)
\* the sum of the amounts of the first n events that are of the given kind
\* and about the given user
AmountsLogged(kind, user, n) ==
    IF n = 0 THEN 0
    ELSE AmountsLogged(kind, user, n - 1)
           + (IF events[n].kind = kind /\ events[n].user = user
              THEN events[n].amount ELSE 0)
Deposited(user) == AmountsLogged("DepositEvent", user, Len(events))
Withdrawn(user) == AmountsLogged("WithdrawEvent", user, Len(events))

\* no record of the ledger v shows less total_spent than it does now
SpentNotLowered(v) ==
    \A u \in Users : v.mining[u].total_spent >= mining[u].total_spent

\* C29: for every user the successful deposits add up to balance +
\* total_spent + the amounts paid out by withdraws; no instruction lowers
\* total_spent of any record; a deposit of amount 0 and a withdraw of an
\* owner whose balance is 0 fail before anything is written or moved (with
\* InvalidAmount and NoBalance when their accounts are the ledger's own).
C29_PerUserAccounting ==
    /\ \A u \in Users :
          Deposited(u) = mining[u].balance + mining[u].total_spent
                           + Withdrawn(u)
    /\ \A user \in InitializeUserInputs :
          SpentNotLowered(Booked(InitializeUserResult(user)))
    /\ \A in \in DepositInputs :
          LET r == DepositResult(in)
          IN  /\ SpentNotLowered(Booked(r))
              /\ in.amount = 0 =>
                    /\ r.err # "Ok"
                    /\ r.w = Ledger
                    /\ DepositAccounts(Ledger, in) = "Ok"
                          => r.err = "InvalidAmount"
    /\ \A in \in ChargeForBatchInputs :
          SpentNotLowered(Booked(ChargeForBatchResult(in)))
    /\ \A in \in WithdrawInputs :
          LET r == WithdrawResult(in)
          IN  /\ SpentNotLowered(Booked(r))
              /\ mining[in.user].balance = 0 =>
                    /\ r.err # "Ok"
                    /\ r.w = Ledger
                    /\ WithdrawAccounts(Ledger, in) = "Ok"
                          => r.err = "NoBalance"
    /\ \A in \in RecordMatchInputs :
          SpentNotLowered(Booked(RecordMatchResult(in)))

\* a user has deposited, spent, withdrawn and deposited again; a deposit of 0
\* by that user and a withdraw of an owner with no balance are refused
C29_Witness ==
    \E u \in Users :
        /\ mining[u].total_spent > 0
        /\ Withdrawn(u) > 0
        /\ Deposited(u) > mining[u].total_spent + Withdrawn(u)
        /\ \E in \in DepositInputs :
              /\ in.user = u /\ in.amount = 0
              /\ DepositResult(in).err = "InvalidAmount"
        /\ \E v \in Users, in \in WithdrawInputs :
              /\ in.user = v /\ mining[v].live
              /\ WithdrawResult(in).err = "NoBalance"

====
